---- MODULE Spec2Model ----
(***************************************************************************)
(* Verification model of the auto-analyser back end.                       *)
(*                                                                         *)
(* Part 1 - the priority-tiered refresh scheduler: the stocks, watchlist   *)
(* and market_data tables, the scheduler tick, the per-tier refresh tasks, *)
(* the immediate update spawned by a watchlist add, the watchlist          *)
(* handlers, delisting detection and the stock-list upsert.                *)
(*                                                                         *)
(* Time is the wall clock in seconds.  Time 0 is the start of the process; *)
(* rows that the database held before the start carry negative instants.   *)
(* An optional value is a sequence: <<>> is None / NULL, <<v>> is Some(v). *)
(***************************************************************************)
EXTENDS Integers, Sequences, FiniteSets, TLC

\* ------------------------------------------------------------------ bounds
\* Number of scheduler ticks after the first one that a behaviour may see.
MaxTicks == 2
\* Number of watchlist adds (each spawns an immediate update) a behaviour may see.
MaxImmediate == 1
\* Number of ticks after the first one beside the watchlist adds.
MaxWatchTicks == 1
\* the longest error text, in words, that is classified
MaxWords == 4
\* the largest period of a CustomRSI fed bar by bar, and the number of bars fed
MaxPeriod == 3
MaxBars == 5
\* the number of bars of a series handed to a batch calculator
MaxSeries == 4
\* the number of ticks of the alert evaluator
MaxCycles == 2
\* the largest number of tickers an on-demand analysis goes through
MaxTickers == 6

\* -------------------------------------------------------- program constants
\* interval(Duration::from_secs(30)) of run_scheduler.
TickSeconds == 30
HighIntervalSeconds == 60
MediumIntervalSeconds == 300
LowIntervalSeconds == 900

Symbols == {"AAA", "BBB"}
Users == {"u1", "u2"}
Tiers == {"High", "Medium", "Low"}
SessionIds == {"s1", "s2"}
AlertIds == {"a1", "a2"}

None == <<>>
Some(v) == <<v>>

\* StockPriority::update_interval_seconds
UpdateIntervalSeconds(priority) ==
    CASE priority = "High" -> HighIntervalSeconds
      [] priority = "Medium" -> MediumIntervalSeconds
      [] priority = "Low" -> LowIntervalSeconds

VARIABLES
    now,                \* wall clock, seconds
    stocks,             \* table stocks: symbol -> None or Some(row)
    watchlist,          \* table watchlist: set of <<user, symbol>>
    market_data,        \* table market_data: set of rows, key (symbol, timestamp)
    last_update_times,  \* PriorityScheduler.last_update_times: tier -> Option<Instant>
    next_tick,          \* instant of the next interval_timer.tick()
    tasks,              \* spawned refresh tasks that have not finished
    next_id,            \* number of immediate updates spawned so far
    req,                \* per user: the watchlist request in progress, or None
    cache,              \* the CacheManager: its three caches and its rate limiter
    indicators,         \* StockAnalyzer.indicators: symbol -> Option<IndicatorSet>
    log,                \* the cache calls made so far (history, read by the
                        \* properties only)
    calls,              \* per caller: the should_rate_limit call between its
                        \* read and its insert, or None
    all_results,        \* AppState.all_results: the Vec behind the RwLock
    sessions,           \* AppState.sessions: session id -> Option<AnalysisStatus>
    runs,               \* per session: the spawned run_analysis (its
                        \* current_status and the await it is at), or None
    alerts,             \* table alerts: id -> None or Some(row)
    alert_triggers,     \* table alert_triggers: id -> number of rows of the alert
    evaluator,          \* the alert evaluator: the alerts it has read and the
                        \* await it is at
    retry,              \* symbols whose latest fetch failed without a delisting
                        \* classification (history, read by the properties only)
    ev                  \* the step taken last (history, read by the properties only)

vars == <<now, stocks, watchlist, market_data, last_update_times, next_tick,
          tasks, next_id, req, cache, indicators, log, calls, all_results,
          sessions, runs, alerts, alert_triggers, evaluator, retry, ev>>

\* The state of the scheduler, the database and the watchlist handlers, and
\* the state of the other components of the process.
sched == <<stocks, watchlist, market_data, last_update_times, next_tick,
           tasks, next_id, req, retry>>
app == <<calls, all_results, sessions, runs, alerts, alert_triggers, evaluator>>
others == <<cache, indicators, log, app>>

\* ------------------------------------------------------------ the database
HasRow(tbl, symbol) == tbl[symbol] # None
RowOf(tbl, symbol) == tbl[symbol][1]

\* The row INSERTed by create_stock: active, no delisting data, never price-updated.
\* The priority and its interval come from the column defaults.
NewStockRow(priority) ==
    [priority |-> priority,
     price_update_interval_seconds |-> UpdateIntervalSeconds(priority),
     last_price_update |-> None,
     is_active |-> TRUE,
     delisting_reason |-> None,
     last_error_at |-> None]

\* Variant: the ON CONFLICT update also takes is_active from the INSERT.
CreateStockRowReactivating(tbl, symbol, priority) ==
    IF HasRow(tbl, symbol)
    THEN [tbl EXCEPT ![symbol] = Some([RowOf(tbl, symbol) EXCEPT !.is_active = TRUE])]
    ELSE [tbl EXCEPT ![symbol] = Some(NewStockRow(priority))]

\* Database::create_stock: INSERT ... ON CONFLICT (symbol) DO UPDATE of the
\* descriptive columns only (name, exchange, sector, industry, market_cap).
CreateStockRow(tbl, symbol, priority) ==
    IF HasRow(tbl, symbol) THEN tbl
    ELSE [tbl EXCEPT ![symbol] = Some(NewStockRow(priority))]

\* Database::update_stock_status
UpdateStockStatusRow(tbl, symbol, is_active) ==
    IF HasRow(tbl, symbol)
    THEN [tbl EXCEPT ![symbol] = Some([RowOf(tbl, symbol) EXCEPT !.is_active = is_active])]
    ELSE tbl

\* Variant: the tier change also clears last_price_update.
SetStockPriorityRowForceDue(tbl, symbol, priority) ==
    IF HasRow(tbl, symbol)
    THEN [tbl EXCEPT ![symbol] = Some([RowOf(tbl, symbol) EXCEPT
              !.priority = priority,
              !.price_update_interval_seconds = UpdateIntervalSeconds(priority),
              !.last_price_update = None])]
    ELSE tbl

\* Database::set_stock_priority
SetStockPriorityRow(tbl, symbol, priority) ==
    IF HasRow(tbl, symbol)
    THEN [tbl EXCEPT ![symbol] = Some([RowOf(tbl, symbol) EXCEPT
              !.priority = priority,
              !.price_update_interval_seconds = UpdateIntervalSeconds(priority)])]
    ELSE tbl

\* Database::update_stock_priority_and_interval (database_new.rs): the tier and
\* the interval are two arguments of the caller.
UpdateStockPriorityAndIntervalRow(tbl, symbol, priority, interval_seconds) ==
    IF HasRow(tbl, symbol)
    THEN [tbl EXCEPT ![symbol] = Some([RowOf(tbl, symbol) EXCEPT
              !.priority = priority,
              !.price_update_interval_seconds = interval_seconds])]
    ELSE tbl

\* Database::update_stock_price_timestamp
UpdateStockPriceTimestampRow(tbl, symbol, t) ==
    IF HasRow(tbl, symbol)
    THEN [tbl EXCEPT ![symbol] = Some([RowOf(tbl, symbol) EXCEPT
              !.last_price_update = Some(t)])]
    ELSE tbl

MarkStockAsDelistedRowStamping(tbl, symbol, t) ==
    IF HasRow(tbl, symbol)
    THEN [tbl EXCEPT ![symbol] = Some([RowOf(tbl, symbol) EXCEPT
              !.is_active = FALSE,
              !.delisting_reason = Some("no_data_found"),
              !.last_error_at = Some(t),
              !.last_price_update = Some(t)])]
    ELSE tbl

\* StockListService::mark_stock_as_delisted (reason "no_data_found")
MarkStockAsDelistedRow(tbl, symbol, t) ==
    IF HasRow(tbl, symbol)
    THEN [tbl EXCEPT ![symbol] = Some([RowOf(tbl, symbol) EXCEPT
              !.is_active = FALSE,
              !.delisting_reason = Some("no_data_found"),
              !.last_error_at = Some(t)])]
    ELSE tbl

\* Variants of the WHERE clause: without the is_active test, without the
\* IS NULL test, and with <= in place of <.
NeedsUpdateAnyStatus(row, priority, t) ==
    /\ row.priority = priority
    /\ \/ row.last_price_update = None
       \/ row.last_price_update[1] < t - UpdateIntervalSeconds(priority)

NeedsUpdateNoNull(row, priority, t) ==
    /\ row.is_active = TRUE
    /\ row.priority = priority
    /\ row.last_price_update # None
    /\ row.last_price_update[1] < t - UpdateIntervalSeconds(priority)

NeedsUpdateInclusive(row, priority, t) ==
    /\ row.is_active = TRUE
    /\ row.priority = priority
    /\ \/ row.last_price_update = None
       \/ row.last_price_update[1] <= t - UpdateIntervalSeconds(priority)

\* The WHERE clause of Database::get_stocks_needing_update for one row.
NeedsUpdate(row, priority, t) ==
    /\ row.is_active = TRUE
    /\ row.priority = priority
    /\ \/ row.last_price_update = None
       \/ row.last_price_update[1] < t - UpdateIntervalSeconds(priority)

\* Database::get_stocks_needing_update: the symbols selected.
StocksNeedingUpdate(tbl, priority, t) ==
    {s \in Symbols : HasRow(tbl, s) /\ NeedsUpdate(RowOf(tbl, s), priority, t)}

\* ORDER BY last_price_update ASC NULLS FIRST.
UpdateOrderOk(tbl, a, b) ==
    LET la == RowOf(tbl, a).last_price_update
        lb == RowOf(tbl, b).last_price_update
    IN  \/ la = None
        \/ lb # None /\ la[1] <= lb[1]

\* The result lists get_stocks_needing_update may return: every ordering of
\* the selected symbols that respects the ORDER BY (ties are in either order).
DueLists(tbl, priority, t) ==
    LET due == StocksNeedingUpdate(tbl, priority, t)
        n == Cardinality(due)
    IN  {q \in [1..n -> due] :
            /\ \A i, j \in 1..n : i # j => q[i] # q[j]
            /\ \A i, j \in 1..n : i < j => UpdateOrderOk(tbl, q[i], q[j])}

\* Database::get_watchlist_symbols: SELECT DISTINCT symbol FROM watchlist
WatchlistSymbols(wl) == {w[2] : w \in wl}

\* Database::store_market_data: INSERT ... ON CONFLICT (symbol, timestamp) DO
\* UPDATE of the data columns.
StoreMarketData(md, bar) ==
    {r \in md : ~(r.symbol = bar.symbol /\ r.timestamp = bar.timestamp)} \cup {bar}

\* Variant: ORDER BY timestamp ASC.
LatestMarketDataAscending(md, symbol) ==
    LET rows == {r \in md : r.symbol = symbol}
    IN  IF rows = {} THEN None
        ELSE Some(CHOOSE r \in rows : \A o \in rows : o.timestamp >= r.timestamp)

\* Database::get_latest_market_data: ORDER BY timestamp DESC LIMIT 1
LatestMarketData(md, symbol) ==
    LET rows == {r \in md : r.symbol = symbol}
    IN  IF rows = {} THEN None
        ELSE Some(CHOOSE r \in rows : \A o \in rows : o.timestamp <= r.timestamp)


\* ------------------------------------------------- provider and error text
\* An error text is a sequence of words.  ProviderErrors are texts the data
\* provider may answer with instead of a quote.
ProviderErrors ==
    {<<"No", "data", "found">>,
     <<"Connection", "refused">>,
     <<"Host", "not", "found">>}

\* str::to_lowercase on the words that occur.
LowerWord(w) ==
    CASE w = "No" -> "no"
      [] w = "Not" -> "not"
      [] w = "Symbol" -> "symbol"
      [] w = "Invalid" -> "invalid"
      [] w = "Host" -> "host"
      [] w = "Connection" -> "connection"
      [] w = "Stock" -> "stock"
      [] w = "Failed" -> "failed"
      [] w = "NO" -> "no"
      [] w = "DATA" -> "data"
      [] w = "FOUND" -> "found"
      [] w = "Some" -> "some"
      [] w = "Timeout" -> "timeout"
      [] w = "Network" -> "network"
      [] w = "API" -> "api"
      [] w = "Internal" -> "internal"
      [] OTHER -> w

ToLowercase(text) == [i \in 1..Len(text) |-> LowerWord(text[i])]

\* str::contains
Contains(text, phrase) ==
    \E i \in 0..(Len(text) - Len(phrase)) :
        \A k \in 1..Len(phrase) : text[i + k] = phrase[k]

DelistingPhrases ==
    {<<"no", "data", "found">>,
     <<"symbol", "may", "be", "delisted">>,
     <<"invalid", "symbol">>,
     <<"not", "found">>}

IsDelistingErrorCaseSensitive(error_msg) ==
    \E phrase \in DelistingPhrases : Contains(error_msg, phrase)

\* MarketDataService::is_delisting_error
IsDelistingError(error_msg) ==
    LET error_lower == ToLowercase(error_msg)
    IN  \E phrase \in DelistingPhrases : Contains(error_lower, phrase)

\* MarketDataService::fetch_current_quote on the provider's answer: None is a
\* quote, Some(e) the provider's error e.
FetchCurrentQuote(symbol, answer) ==
    IF answer = None THEN [kind |-> "Ok", msg |-> <<>>]
    ELSE LET e == answer[1]
             error_msg == <<"Failed", "to", "fetch", "quote:">> \o e
         IN  IF IsDelistingError(error_msg)
             THEN [kind |-> "BadRequest",
                   msg |-> <<"Stock", symbol, "may", "be", "delisted:">> \o e]
             ELSE [kind |-> "InternalServerError", msg |-> error_msg]

\* The match of fetch_current_quote_with_delisting_check: "ok", "delisting"
\* (the arm that marks the stock) or "error" (any other failure).
QuoteOutcome(symbol, answer) ==
    LET r == FetchCurrentQuote(symbol, answer)
    IN  IF r.kind = "Ok" THEN "ok"
        ELSE IF r.kind = "BadRequest" /\ IsDelistingError(r.msg) THEN "delisting"
        ELSE "error"

ProviderAnswers == {None} \cup {Some(e) : e \in ProviderErrors}

\* The error texts is_delisting_error is applied to: every text of at most
\* MaxWords words over the words of the delisting phrases in both cases, and
\* the texts of test_is_delisting_error.
ErrorMessages ==
    UNION {[1..n -> {"No", "NO", "data", "DATA", "found", "Not", "Symbol",
                     "may", "be", "delisted", "Invalid", "symbol"}] : n \in 1..MaxWords}
        \cup {<<"NO", "DATA", "FOUND">>,
              <<"Some", "other", "error">>, <<"Timeout", "expired">>,
              <<"Connection", "refused">>, <<"Network", "timeout">>,
              <<"API", "rate", "limit", "exceeded">>,
              <<"Internal", "server", "error">>}

\* ------------------------------------------------------------------ events
\* done: the step ended its task; symbols, fetched: the task's list and the
\* fetches it has made, at that step; quote: the timestamp of the quote the
\* step stored or stamped.
Event(op, sym, task, ok) ==
    [op |-> op, sym |-> sym, task |-> task, ok |-> ok,
     done |-> FALSE, symbols |-> <<>>, fetched |-> <<>>, quote |-> None]

NoTask == [kind |-> "none", priority |-> "none", n |-> 0]

\* The event of a task's step on its current symbol.  When the step ends the
\* task, the event keeps the task's list and the fetches it made.
TaskEvent(op, task, ok, done) ==
    [Event(op, task.symbols[task.pos], task.id, ok) EXCEPT
        !.done = done,
        !.symbols = IF done THEN task.symbols ELSE <<>>,
        !.fetched = IF done THEN task.fetched ELSE <<>>,
        !.quote = task.quote]

\* ---------------------------------------------------------------- the cache
\* CacheManager (cache.rs): three moka caches, each with a time_to_live, whose
\* entries carry the instant of the caching call, and the rate limiter, a map
\* from identifier to the instant of the last allowed request.  The caches
\* hold fewer keys here than their max_capacity, so nothing is evicted for
\* space.
CacheTtlSeconds == 300
TickersTtlSeconds == 3600

CacheKeys == {"k1", "k2"}

\* The instants at which the cache is called.
Instants == {0, 1, CacheTtlSeconds - 1, CacheTtlSeconds,
             TickersTtlSeconds - 1, TickersTtlSeconds}

Ttl(kind) ==
    IF kind = "tickers_cache" THEN TickersTtlSeconds ELSE CacheTtlSeconds

NewCacheManager ==
    [stock_data_cache |-> [k \in CacheKeys |-> None],
     indicators_cache |-> [k \in CacheKeys |-> None],
     tickers_cache |-> [k \in CacheKeys |-> None],
     rate_limiter |-> [k \in CacheKeys |-> None]]

GetterFreshAlways(entry, ttl, t) == TRUE

GetterFreshInclusive(entry, ttl, t) == t - entry.cached_at <= ttl

\* get_stock_data / get_indicators / get_tickers: cached_at.elapsed() < TTL.
GetterFresh(entry, ttl, t) == t - entry.cached_at < ttl

\* The value a getter returns at instant t: moka returns the entry unless its
\* time_to_live has passed since it was written, and the getter returns its
\* value when it is fresh.
Lookup(c, kind, key, t) ==
    LET stored == c[kind][key]
    IN  IF /\ stored # None
           /\ t < stored[1].written + Ttl(kind)
           /\ GetterFresh(stored[1], Ttl(kind), t)
        THEN Some(stored[1].value)
        ELSE None

\* cache_stock_data / cache_indicators / cache_tickers: the entry carries
\* Instant::now() taken when the call starts; moka writes it when the awaited
\* insert runs, lag seconds later.
CacheData(kind, key, data, lag) ==
    /\ now + lag \in Instants
    /\ now' = now + lag
    /\ cache' = [cache EXCEPT ![kind][key] =
                    Some([value |-> data, cached_at |-> now, written |-> now + lag])]
    /\ log' = [log EXCEPT !.cached[kind][key] =
                    Some([value |-> data, at |-> now, cleared |-> FALSE])]
    /\ ev' = [op |-> "cache", kind |-> kind, key |-> key, result |-> None]
    /\ UNCHANGED indicators
    /\ UNCHANGED sched
    /\ UNCHANGED app

GetData(kind, key) ==
    /\ ev' = [op |-> "get", kind |-> kind, key |-> key,
              result |-> Lookup(cache, kind, key, now)]
    /\ UNCHANGED <<now, cache, indicators, log>>
    /\ UNCHANGED sched
    /\ UNCHANGED app

ShouldRefuseInclusive(last_request, min_interval, t) ==
    last_request # None /\ t - last_request[1] <= min_interval

\* should_rate_limit: last_request.elapsed() < min_interval.
ShouldRefuse(last_request, min_interval, t) ==
    last_request # None /\ t - last_request[1] < min_interval

ShouldRateLimitRecordingRefusals(identifier, min_interval) ==
    LET refused == ShouldRefuse(cache.rate_limiter[identifier], min_interval, now)
        first == log.first[identifier]
    IN  /\ cache' = [cache EXCEPT !.rate_limiter[identifier] = Some(now)]
        /\ log' = [log EXCEPT !.first[identifier] =
                      IF first = None
                      THEN Some([at |-> now, min_interval |-> min_interval,
                                 only_refused |-> TRUE, refused |-> FALSE])
                      ELSE Some([first[1] EXCEPT
                                    !.only_refused =
                                        /\ @
                                        /\ refused
                                        /\ min_interval = first[1].min_interval,
                                    !.refused = @ \/ refused])]
        /\ ev' = [op |-> "should_rate_limit", key |-> identifier,
                  min_interval |-> min_interval, result |-> refused,
                  first |-> first]
        /\ UNCHANGED <<now, indicators>>
        /\ UNCHANGED sched
        /\ UNCHANGED app

ShouldRateLimit(identifier, min_interval) ==
    LET refused == ShouldRefuse(cache.rate_limiter[identifier], min_interval, now)
        first == log.first[identifier]
    IN  /\ cache' = IF refused THEN cache
                    ELSE [cache EXCEPT !.rate_limiter[identifier] = Some(now)]
        /\ log' = [log EXCEPT !.first[identifier] =
                      IF first = None
                      THEN Some([at |-> now, min_interval |-> min_interval,
                                 only_refused |-> TRUE, refused |-> FALSE])
                      ELSE Some([first[1] EXCEPT
                                    !.only_refused =
                                        /\ @
                                        /\ refused
                                        /\ min_interval = first[1].min_interval,
                                    !.refused = @ \/ refused])]
        /\ ev' = [op |-> "should_rate_limit", key |-> identifier,
                  min_interval |-> min_interval, result |-> refused,
                  first |-> first]
        /\ UNCHANGED <<now, indicators>>
        /\ UNCHANGED sched
        /\ UNCHANGED app

\* clear_cache: invalidate_all on the three caches, clear on the rate limiter.
ClearCache ==
    /\ cache' = NewCacheManager
    /\ log' = [cached |-> [kind \in DOMAIN log.cached |-> [k \in CacheKeys |->
                   IF log.cached[kind][k] = None THEN None
                   ELSE Some([log.cached[kind][k][1] EXCEPT !.cleared = TRUE])]],
               first |-> [k \in CacheKeys |->
                   IF log.first[k] = None THEN None
                   ELSE Some([log.first[k][1] EXCEPT !.only_refused = FALSE])]]
    /\ ev' = [op |-> "clear_cache"]
    /\ UNCHANGED <<now, indicators>>
    /\ UNCHANGED sched
    /\ UNCHANGED app

\* Time passes between two calls of the cache.
Elapse(t) ==
    /\ t > now
    /\ now' = t
    /\ ev' = [op |-> "elapse"]
    /\ UNCHANGED <<cache, indicators, log>>
    /\ UNCHANGED sched
    /\ UNCHANGED app

\* is_delisting_error applied to the error text at hand.
ClassifyError ==
    /\ ev.op = "error"
    /\ ev' = [op |-> "is_delisting_error", msg |-> ev.msg,
              result |-> IsDelistingError(ev.msg)]
    /\ UNCHANGED <<now, cache, indicators, log>>
    /\ UNCHANGED sched
    /\ UNCHANGED app

\* ------------------------------------------------------------ the indicators
\* An f64 is the exact fraction <<numerator, denominator>>; closes are whole
\* numbers.
RsiPeriod == 14
Sma20Period == 20
Sma50Period == 50

RECURSIVE Sum(_)
Sum(q) == IF q = <<>> THEN 0 ELSE Head(q) + Sum(Tail(q))

NewRsiWithClose(period) ==
    [period |-> period, avg_gain |-> None, avg_loss |-> None,
     previous_close |-> Some(0), count |-> 0,
     initial_gains |-> <<>>, initial_losses |-> <<>>]

\* CustomRSI::new
NewRsi(period) ==
    [period |-> period, avg_gain |-> None, avg_loss |-> None,
     previous_close |-> None, count |-> 0,
     initial_gains |-> <<>>, initial_losses |-> <<>>]

RsiResetKeepingClose(rsi) ==
    [NewRsi(rsi.period) EXCEPT !.previous_close = rsi.previous_close]

\* CustomRSI::reset
RsiReset(rsi) ==
    [rsi EXCEPT !.avg_gain = None, !.avg_loss = None, !.previous_close = None,
                !.count = 0, !.initial_gains = <<>>, !.initial_losses = <<>>]

LossOfAnyChange(change) == IF change < 0 THEN 0 - change ELSE change

\* let loss = if change < 0.0 { -change } else { 0.0 }
Loss(change) == IF change < 0 THEN 0 - change ELSE 0

\* Wilder's smoothing, alpha * x + (1 - alpha) * avg with alpha = 1 / period.
Smooth(x, avg, period) == <<x * avg[2] + (period - 1) * avg[1], period * avg[2]>>

\* 100 - 100 / (1 + avg_gain / avg_loss).  The two averages have the same
\* denominator, which cancels in the quotient.
RsiValue(avg_gain, avg_loss) == <<100 * avg_gain[1], avg_gain[1] + avg_loss[1]>>

\* CustomRSI::next: the indicator after the call and the value returned.
RsiNext(rsi, close) ==
    IF rsi.previous_close = None
    THEN [rsi |-> [rsi EXCEPT !.previous_close = Some(close)], out |-> None]
    ELSE
        LET change == close - rsi.previous_close[1]
            gain == IF change > 0 THEN change ELSE 0
            loss == Loss(change)
            gains == Append(rsi.initial_gains, gain)
            losses == Append(rsi.initial_losses, loss)
            averaged ==
                IF rsi.count < rsi.period
                THEN [rsi EXCEPT
                        !.initial_gains = gains,
                        !.initial_losses = losses,
                        !.count = @ + 1,
                        !.avg_gain = IF rsi.count + 1 = rsi.period
                                     THEN Some(<<Sum(gains), rsi.period>>) ELSE @,
                        !.avg_loss = IF rsi.count + 1 = rsi.period
                                     THEN Some(<<Sum(losses), rsi.period>>) ELSE @]
                ELSE [rsi EXCEPT
                        !.avg_gain = Some(Smooth(gain, @[1], rsi.period)),
                        !.avg_loss = Some(Smooth(loss, @[1], rsi.period))]
        IN  IF averaged.avg_gain # None /\ averaged.avg_loss # None
            THEN IF averaged.avg_loss[1][1] = 0
                 THEN [rsi |-> averaged, out |-> Some(<<100, 1>>)]
                 ELSE [rsi |-> [averaged EXCEPT !.previous_close = Some(close)],
                       out |-> Some(RsiValue(averaged.avg_gain[1],
                                             averaged.avg_loss[1]))]
            ELSE [rsi |-> [averaged EXCEPT !.previous_close = Some(close)],
                  out |-> None]

\* ta::indicators::SimpleMovingAverage::new
NewSma(period) ==
    [period |-> period, index |-> 1, count |-> 0, sum |-> 0,
     deque |-> [i \in 1..period |-> 0]]

\* ta::indicators::SimpleMovingAverage::next: the sum of the window over the
\* number of values in it.
SmaNext(sma, input) ==
    LET count == IF sma.count < sma.period THEN sma.count + 1 ELSE sma.count
        sum == sma.sum - sma.deque[sma.index] + input
    IN  [sma |-> [sma EXCEPT !.deque[sma.index] = input,
                             !.index = IF @ < sma.period THEN @ + 1 ELSE 1,
                             !.count = count,
                             !.sum = sum],
         out |-> <<sum, count>>]

\* StockAnalyzer::initialize_indicators.  The MACD is the closes it has
\* consumed since it was created or reset, which determine its output.
NewIndicatorSet ==
    [sma_20 |-> NewSma(Sma20Period), sma_50 |-> NewSma(Sma50Period),
     rsi |-> NewRsi(RsiPeriod), macd |-> <<>>]

\* The for loop of calculate_indicators: the indicator set after the bars and
\* one TechnicalIndicators per bar.
RECURSIVE Feed(_, _)
Feed(set, closes) ==
    IF closes = <<>> THEN [results |-> <<>>, set |-> set]
    ELSE IF Len(closes) = 1
    THEN
        LET sma_20 == SmaNext(set.sma_20, Head(closes))
            sma_50 == SmaNext(set.sma_50, Head(closes))
            rsi == RsiNext(set.rsi, Head(closes))
            macd == Append(set.macd, Head(closes))
        IN  [results |-> <<[sma_20 |-> Some(sma_20.out),
                            sma_50 |-> Some(sma_50.out),
                            rsi |-> rsi.out,
                            macd |-> Some(macd)]>>,
             set |-> [sma_20 |-> sma_20.sma, sma_50 |-> sma_50.sma,
                      rsi |-> rsi.rsi, macd |-> macd]]
    ELSE
        \* the bars in order, the earlier half before the later half
        LET earlier == Feed(set, SubSeq(closes, 1, Len(closes) \div 2))
            later == Feed(earlier.set,
                          SubSeq(closes, Len(closes) \div 2 + 1, Len(closes)))
        IN  [results |-> earlier.results \o later.results,
             set |-> later.set]

\* StockAnalyzer::calculate_indicators on the closes of stock_data.
CalculateIndicators(symbol, stock_data) ==
    LET set == IF indicators[symbol] = None THEN NewIndicatorSet
               ELSE indicators[symbol][1]
        reset == [sma_20 |-> NewSma(set.sma_20.period),
                  sma_50 |-> NewSma(set.sma_50.period),
                  rsi |-> RsiReset(set.rsi),
                  macd |-> <<>>]
        run == Feed(reset, stock_data)
    IN  /\ indicators' = [indicators EXCEPT ![symbol] = Some(run.set)]
        /\ ev' = [op |-> "calculate_indicators", sym |-> symbol,
                  initialized |-> indicators[symbol] # None,
                  stock_data |-> stock_data, results |-> run.results]
        /\ UNCHANGED <<now, cache, log>>
        /\ UNCHANGED sched
        /\ UNCHANGED app

\* One call of CustomRSI::next on the indicator at hand; closes and outs are
\* the closes it has consumed and the values it has returned.
RsiStep(close) ==
    /\ ev.op \in {"new", "next"}
    /\ Len(ev.closes) < MaxBars
    /\ LET r == RsiNext(ev.rsi, close)
       IN  ev' = [op |-> "next", rsi |-> r.rsi, out |-> r.out,
                  closes |-> Append(ev.closes, close),
                  outs |-> Append(ev.outs, r.out)]
    /\ UNCHANGED <<now, cache, indicators, log>>
    /\ UNCHANGED sched
    /\ UNCHANGED app

\* ------------------------------------------------------ the batch calculators
\* The f64 values of the batch calculators are exact fractions in lowest terms
\* with a positive denominator, so that equal values are equal pairs.
OversoldRsi == 30
OverboughtRsi == 70

RECURSIVE Gcd(_, _)
Gcd(a, b) == IF b = 0 THEN a ELSE Gcd(b, a % b)

Frac(n, d) ==
    LET g == Gcd(IF n < 0 THEN 0 - n ELSE n, IF d < 0 THEN 0 - d ELSE d)
    IN  IF d < 0 THEN <<(0 - n) \div g, (0 - d) \div g>>
        ELSE <<n \div g, d \div g>>

Plus(x, y) == Frac(x[1] * y[2] + y[1] * x[2], x[2] * y[2])

Minus(x, y) == Frac(x[1] * y[2] - y[1] * x[2], x[2] * y[2])

Times(x, y) == Frac(x[1] * y[1], x[2] * y[2])

Over(x, y) == Frac(x[1] * y[2], x[2] * y[1])

\* f64::sqrt of a fraction that is the square of a fraction.
Sqrt(x) ==
    <<CHOOSE r \in 0..x[1] : r * r = x[1], CHOOSE r \in 1..x[2] : r * r = x[2]>>

\* The high, low and close of the StockData bars handed to the calculators: a
\* flat bar at each level, bars that open a range, and bars that gap away
\* from the close before them.
Bars ==
    {[high |-> 1, low |-> 1, close |-> 1], [high |-> 2, low |-> 1, close |-> 1],
     [high |-> 2, low |-> 1, close |-> 2], [high |-> 3, low |-> 2, close |-> 2],
     [high |-> 3, low |-> 1, close |-> 2], [high |-> 3, low |-> 3, close |-> 3]}

\* The periods of the calculators.  The standard deviation of one or two whole
\* closes is a fraction.
Periods == {1, 2}

TrueRangeWithinBar(bar, prev_close) == bar.high - bar.low

\* tr = (high - low).max((high - prev_close).abs()).max((low - prev_close).abs())
TrueRange(bar, prev_close) ==
    LET up == bar.high - prev_close
        down == bar.low - prev_close
        ranges == {bar.high - bar.low,
                   IF up < 0 THEN 0 - up ELSE up,
                   IF down < 0 THEN 0 - down ELSE down}
    IN  CHOOSE tr \in ranges : \A r \in ranges : r <= tr

\* AverageTrueRange::calculate
AtrCalculate(period, data) ==
    IF Len(data) < 2 THEN [i \in 1..Len(data) |-> None]
    ELSE
        LET true_ranges ==
                [i \in 1..(Len(data) - 1) |-> TrueRange(data[i + 1], data[i].close)]
            results[i \in 1..Len(data)] ==
                IF i = 1 \/ i - 1 < period THEN None
                ELSE IF i - 1 = period
                THEN Some(Frac(Sum(SubSeq(true_ranges, 1, i - 1)), period))
                ELSE LET prev_atr == results[i - 1][1]
                     IN  Some(Over(Plus(Times(prev_atr, <<period - 1, 1>>),
                                        <<true_ranges[i - 1], 1>>),
                                   <<period, 1>>))
        IN  [i \in 1..Len(data) |-> results[i]]

WindowToTheEnd(data, i, period) == SubSeq(data, Len(data) - period + 1, Len(data))

\* let window = &data[i - self.period + 1..=i], at the position i counted from 1
Window(data, i, period) == SubSeq(data, i - period + 1, i)

PercentBFromUpperBand(current_price, upper_band, lower_band) ==
    IF upper_band # lower_band
    THEN Over(Minus(upper_band, current_price), Minus(upper_band, lower_band))
    ELSE <<1, 2>>

\* percent_b of BollingerBands::calculate
PercentB(current_price, upper_band, lower_band) ==
    IF upper_band # lower_band
    THEN Over(Minus(current_price, lower_band), Minus(upper_band, lower_band))
    ELSE <<1, 2>>

\* BollingerBands::calculate
BollingerCalculate(period, std_dev_multiplier, data) ==
    IF Len(data) < period THEN [i \in 1..Len(data) |-> None]
    ELSE
        [i \in 1..Len(data) |->
            IF i < period THEN None
            ELSE
                LET window == Window(data, i, period)
                    total == Sum([j \in 1..period |-> window[j].close])
                    sma == Frac(total, period)
                    variance ==
                        Frac(Sum([j \in 1..period |->
                                     (period * window[j].close - total)
                                         * (period * window[j].close - total)]),
                             period * period * period)
                    std_dev == Sqrt(variance)
                    upper_band == Plus(sma, Times(std_dev_multiplier, std_dev))
                    lower_band == Minus(sma, Times(std_dev_multiplier, std_dev))
                    bandwidth ==
                        IF sma # <<0, 1>>
                        THEN Times(Over(Minus(upper_band, lower_band), sma), <<100, 1>>)
                        ELSE <<0, 1>>
                IN  Some([upper_band |-> upper_band,
                          middle_band |-> sma,
                          lower_band |-> lower_band,
                          bandwidth |-> bandwidth,
                          percent_b |-> PercentB(<<data[i].close, 1>>,
                                                 upper_band, lower_band)])]

KPercentOfHigh(current_close, highest_high, lowest_low) ==
    IF highest_high # lowest_low
    THEN Frac((highest_high - current_close) * 100, highest_high - lowest_low)
    ELSE <<50, 1>>

\* k_percent of StochasticOscillator::calculate
KPercent(current_close, highest_high, lowest_low) ==
    IF highest_high # lowest_low
    THEN Frac((current_close - lowest_low) * 100, highest_high - lowest_low)
    ELSE <<50, 1>>

\* StochasticOscillator::calculate
StochasticCalculate(k_period, d_period, data) ==
    IF Len(data) < k_period THEN [i \in 1..Len(data) |-> None]
    ELSE
        LET k_values ==
                [i \in k_period..Len(data) |->
                    LET window == Window(data, i, k_period)
                        highs == {window[j].high : j \in 1..k_period}
                        lows == {window[j].low : j \in 1..k_period}
                    IN  KPercent(data[i].close,
                                 CHOOSE h \in highs : \A x \in highs : x <= h,
                                 CHOOSE l \in lows : \A x \in lows : l <= x)]
            sum[i \in k_period..Len(data), n \in 0..d_period] ==
                IF n = 0 THEN <<0, 1>> ELSE Plus(sum[i, n - 1], k_values[i - n + 1])
        IN  [i \in 1..Len(data) |->
                IF i < k_period THEN None
                ELSE Some([k_percent |-> k_values[i],
                           d_percent |->
                               IF i - k_period + 1 >= d_period
                               THEN Over(sum[i, d_period], <<d_period, 1>>)
                               ELSE k_values[i]])]

\* CommodityChannelIndex::calculate
CciCalculate(period, factor, data) ==
    IF Len(data) < period THEN [i \in 1..Len(data) |-> None]
    ELSE
        [i \in 1..Len(data) |->
            IF i < period THEN None
            ELSE
                LET window == Window(data, i, period)
                    \* three times the typical price of each bar of the window
                    prices == [j \in 1..period |->
                                  window[j].high + window[j].low + window[j].close]
                    sma_tp == Frac(Sum(prices), 3 * period)
                    mean_deviation ==
                        Frac(Sum([j \in 1..period |->
                                     IF period * prices[j] < Sum(prices)
                                     THEN Sum(prices) - period * prices[j]
                                     ELSE period * prices[j] - Sum(prices)]),
                             3 * period * period)
                    current_tp == Frac(prices[period], 3)
                IN  Some(IF mean_deviation # <<0, 1>>
                         THEN Over(Minus(current_tp, sma_tp),
                                   Times(factor, mean_deviation))
                         ELSE <<0, 1>>)]

\* ta::indicators::ExponentialMovingAverage::next on the average so far, which
\* is absent before the first input: k * input + (1 - k) * current with
\* k = 2 / (period + 1).
EmaNext(period, current, input) ==
    IF current = None THEN input
    ELSE Plus(Times(<<2, period + 1>>, input),
              Times(<<period - 1, period + 1>>, current[1]))

\* ta::indicators::MovingAverageConvergenceDivergence::next on the three
\* averages of the indicator: the averages after the call and its output.
TaMacdNext(periods, emas, input) ==
    LET fast_val == EmaNext(periods[1], emas.fast, input)
        slow_val == EmaNext(periods[2], emas.slow, input)
        macd == Minus(fast_val, slow_val)
        signal == EmaNext(periods[3], emas.signal, macd)
    IN  [emas |-> [fast |-> Some(fast_val), slow |-> Some(slow_val),
                   signal |-> Some(signal)],
         out |-> [macd |-> macd, signal |-> signal,
                  histogram |-> Minus(macd, signal)]]

MacdOutputSignalTwice(result) ==
    [macd |-> result.macd, signal |-> result.signal, histogram |-> result.signal]

\* The MACDOutput that MovingAverageConvergenceDivergence::next builds from the
\* result of the indicator it wraps.
MacdOutput(result) ==
    [macd |-> result.macd, signal |-> result.signal, histogram |-> result.histogram]

\* The values MovingAverageConvergenceDivergence::next returns when a new
\* indicator of these periods is fed the closes of data one by one.
MacdCalculate(periods, data) ==
    LET run[i \in 0..Len(data)] ==
            IF i = 0 THEN [emas |-> [fast |-> None, slow |-> None, signal |-> None]]
            ELSE TaMacdNext(periods, run[i - 1].emas, <<data[i].close, 1>>)
    IN  [i \in 1..Len(data) |-> MacdOutput(run[i].out)]

\* is_opportunity as each analysis path computes it from the RSI of the latest
\* snapshot; only run_analysis has a request, whose filter it reads.
IsOpportunity(path, rsi, filter) ==
    IF rsi = None THEN FALSE
    ELSE IF path = "run_analysis"
    THEN \/ rsi[1] <= (IF filter.oversold_rsi_threshold = None THEN OversoldRsi
                       ELSE filter.oversold_rsi_threshold[1])
         \/ rsi[1] >= (IF filter.overbought_rsi_threshold = None THEN OverboughtRsi
                       ELSE filter.overbought_rsi_threshold[1])
    ELSE rsi[1] <= OversoldRsi \/ rsi[1] >= OverboughtRsi

\* StockAnalyzer::analyze_signals
AnalyzeSignals(data, snapshot) ==
    (IF snapshot.rsi = None THEN <<>>
     ELSE IF snapshot.rsi[1] > OverboughtRsi THEN <<"RSI Overbought (>70)">>
     ELSE IF snapshot.rsi[1] < OversoldRsi THEN <<"RSI Oversold (<30)">>
     ELSE <<>>)
    \o (IF snapshot.sma_20 = None \/ snapshot.sma_50 = None THEN <<>>
        ELSE IF snapshot.sma_20[1] > snapshot.sma_50[1] /\ data.close > snapshot.sma_20[1]
        THEN <<"Bullish: Price above SMA20 > SMA50">>
        ELSE IF snapshot.sma_20[1] < snapshot.sma_50[1] /\ data.close < snapshot.sma_20[1]
        THEN <<"Bearish: Price below SMA20 < SMA50">>
        ELSE <<>>)
    \o (IF snapshot.macd = None THEN <<>>
        ELSE IF snapshot.macd[1][1] > snapshot.macd[1][2]
        THEN <<"MACD Bullish: MACD above Signal">>
        ELSE <<"MACD Bearish: MACD below Signal">>)

\* IndicatorService::calculate_indicators on the rows of market_data handed
\* to it: the sma_20 and the sma_50 of the TechnicalIndicators it returns,
\* each the sum and the count of the window of the ta indicator.
ServiceCalculateIndicators(data) ==
    IF data = <<>> THEN [sma_20 |-> None, sma_50 |-> None]
    ELSE
        LET rows == {data[i] : i \in 1..Len(data)}
            sorted_data ==
                [i \in 1..Len(data) |->
                    CHOOSE d \in rows :
                        Cardinality({e \in rows : e.timestamp < d.timestamp}) = i - 1]
            closes == [i \in 1..Len(data) |-> sorted_data[i].close]
            Average(period) ==
                IF Len(closes) >= period
                THEN LET \* the SMA after next on the closes first..last, one
                         \* half of them after the other
                         RECURSIVE Fed(_, _, _)
                         Fed(sma, first, last) ==
                             IF first = last THEN SmaNext(sma, closes[first]).sma
                             ELSE LET half == Fed(sma, first, (first + last) \div 2)
                                  IN  IF half.period = period
                                      THEN Fed(half, (first + last) \div 2 + 1, last)
                                      ELSE half
                     IN  Some(SmaNext(Fed(NewSma(period), 1, Len(closes)),
                                      closes[Len(closes)]).out)
                ELSE None
        IN  [sma_20 |-> Average(Sma20Period), sma_50 |-> Average(Sma50Period)]

\* StockAnalyzer::filter_tickers_with_analysis.  A ticker carries whether it
\* passes the basic filters and what get_current_rsi returns for its symbol:
\* an Err, or Ok of an optional RSI.
FilterTickersWithAnalysis(tickers, filter) ==
    LET Kept(ticker) ==
            /\ ticker.passes_basic_filters
            /\ ticker.rsi.ok
                   \/ ( /\ filter.min_rsi = None
                        /\ filter.max_rsi = None
                        /\ filter.oversold_rsi_threshold = None
                        /\ filter.overbought_rsi_threshold = None )
            /\ (ticker.rsi.ok /\ ticker.rsi.value # None) =>
                   LET rsi_value == ticker.rsi.value[1]
                   IN  /\ filter.min_rsi # None => ~(rsi_value < filter.min_rsi[1])
                       /\ filter.max_rsi # None => ~(rsi_value > filter.max_rsi[1])
                       /\ filter.oversold_rsi_threshold # None
                              => ~(rsi_value >= filter.oversold_rsi_threshold[1])
                       /\ filter.overbought_rsi_threshold # None
                              => ~(rsi_value <= filter.overbought_rsi_threshold[1])
        kept == SelectSeq(tickers, Kept)
    IN  [i \in 1..Len(kept) |->
            <<kept[i], IF kept[i].rsi.ok THEN kept[i].rsi.value ELSE None>>]

\* One call of a calculator, or of an analysis step, on the arguments at hand.
Calculate ==
    /\ ev.op = "call"
    /\ ev.of # "calculate_indicators"
    /\ ev' = [op |-> ev.of, call |-> ev,
              results |->
                  CASE ev.of = "AverageTrueRange" ->
                           AtrCalculate(ev.period, ev.data)
                    [] ev.of = "BollingerBands" ->
                           BollingerCalculate(ev.period, ev.std_dev_multiplier, ev.data)
                    [] ev.of = "StochasticOscillator" ->
                           StochasticCalculate(ev.period, ev.d_period, ev.data)
                    [] ev.of = "CommodityChannelIndex" ->
                           CciCalculate(ev.period, ev.factor, ev.data)
                    [] ev.of = "MovingAverageConvergenceDivergence" ->
                           MacdCalculate(ev.periods, ev.data)
                    [] ev.of = "is_opportunity" ->
                           IsOpportunity(ev.path, ev.rsi, ev.filter)
                    [] ev.of = "analyze_signals" ->
                           AnalyzeSignals(ev.data, ev.snapshot)
                    [] ev.of = "IndicatorService" ->
                           ServiceCalculateIndicators(ev.data)
                    [] ev.of = "filter_tickers_with_analysis" ->
                           FilterTickersWithAnalysis(ev.tickers, ev.filter)]
    /\ UNCHANGED <<now, cache, indicators, log>>
    /\ UNCHANGED sched
    /\ UNCHANGED app

\* ------------------------------------------- should_rate_limit, step by step
\* should_rate_limit, lines 83-88: the read of the DashMap and the test of the
\* instant it holds.  A refused call returns here; any other call goes on to
\* the insert of line 90, which is a second access to the map.
RateLimitGet(caller, identifier, min_interval) ==
    /\ calls[caller] = None
    /\ LET refused == ShouldRefuse(cache.rate_limiter[identifier], min_interval, now)
       IN  /\ calls' = IF refused THEN calls
                       ELSE [calls EXCEPT ![caller] =
                                Some([key |-> identifier, min_interval |-> min_interval])]
           /\ ev' = [op |-> "rate_limit_get", caller |-> caller, key |-> identifier,
                     min_interval |-> min_interval, refused |-> refused]
    /\ UNCHANGED <<now, cache, indicators, log>>
    /\ UNCHANGED <<all_results, sessions, runs, alerts, alert_triggers, evaluator>>
    /\ UNCHANGED sched

\* should_rate_limit, lines 90-91: the insert of Instant::now() and the
\* return of false.
RateLimitInsert(caller) ==
    /\ calls[caller] # None
    /\ cache' = [cache EXCEPT !.rate_limiter[calls[caller][1].key] = Some(now)]
    /\ calls' = [calls EXCEPT ![caller] = None]
    /\ ev' = [op |-> "rate_limit_insert", caller |-> caller,
              key |-> calls[caller][1].key,
              min_interval |-> calls[caller][1].min_interval, refused |-> FALSE]
    /\ UNCHANGED <<now, indicators, log>>
    /\ UNCHANGED <<all_results, sessions, runs, alerts, alert_triggers, evaluator>>
    /\ UNCHANGED sched

\* The components other than the scheduler, after construction.  log is what
\* the properties read of the calls made so far: per cache and key the most
\* recent caching call (its value, its instant, whether clear_cache ran after
\* it), and per rate-limiter key the first call (its instant and interval,
\* whether every call since was a refused call with the same interval and no
\* clear_cache ran, and whether some call since was refused).
InitOthers ==
    /\ cache = NewCacheManager
    /\ indicators = [s \in Symbols |-> None]
    /\ log = [cached |-> [kind \in {"stock_data_cache", "indicators_cache",
                                    "tickers_cache"} |-> [k \in CacheKeys |-> None]],
              first |-> [k \in CacheKeys |-> None]]
    /\ calls = [caller \in Users |-> None]
    /\ all_results = <<>>
    /\ sessions = [id \in SessionIds |-> None]
    /\ runs = [id \in SessionIds |-> None]
    /\ alerts = [id \in AlertIds |-> None]
    /\ alert_triggers = [id \in AlertIds |-> 0]
    /\ evaluator = [pc |-> "tick", alerts |-> <<>>, cycle |-> 0]

\* -------------------------------------------------------------------- Init
\* Every component after construction.
Constructed ==
    /\ now = 0
    /\ stocks = [s \in Symbols |-> None]
    /\ watchlist = {}
    /\ market_data = {}
    /\ last_update_times = [p \in Tiers |-> None]
    /\ next_tick = 0
    /\ tasks = {}
    /\ next_id = 0
    /\ req = [u \in Users |-> None]
    /\ InitOthers
    /\ retry = {}

Init ==
    /\ Constructed
    /\ ev = Event("init", "", NoTask, TRUE)


\* ------------------------------------------------------------ refresh tasks
\* A task is the future handed to tokio::spawn.  pc is the await it is at:
\* "scan" (get_stocks_needing_update), "fetch", "store", "stamp".  symbols is
\* the list the scan returned and pos the index of the current symbol;
\* successful_updates and failed_updates are the counters of
\* update_stocks_by_priority; fetched lists the fetches made (history).
TierTask(priority, t) ==
    [id |-> [kind |-> "tier", priority |-> priority, n |-> t],
     symbols |-> <<>>, pos |-> 0, pc |-> "scan", quote |-> None,
     successful_updates |-> 0, failed_updates |-> 0, fetched |-> <<>>]

\* Variant: the immediate update asks the due-set query first.
ImmediateTaskViaScan(symbol, n) ==
    [id |-> [kind |-> "immediate", priority |-> "none", n |-> n],
     symbols |-> <<symbol>>, pos |-> 1, pc |-> "scan", quote |-> None,
     successful_updates |-> 0, failed_updates |-> 0, fetched |-> <<>>]

ImmediateTask(symbol, n) ==
    [id |-> [kind |-> "immediate", priority |-> "none", n |-> n],
     symbols |-> <<symbol>>, pos |-> 1, pc |-> "fetch", quote |-> None,
     successful_updates |-> 0, failed_updates |-> 0, fetched |-> <<>>]

CurrentSymbol(task) == task.symbols[task.pos]

\* The MarketData value built from a quote: quote.timestamp is the instant the
\* fetch returned; data stands for the price columns, volume and created_at,
\* which are this refresh's own.
MarketDataOf(task) ==
    [symbol |-> CurrentSymbol(task), timestamp |-> task.quote[1], data |-> task.id]

\* Variant: the first failure ends the batch.
AfterSymbolAbortOnFailure(task) ==
    IF task.pos < Len(task.symbols) /\ task.failed_updates = 0
    THEN Some([task EXCEPT !.pos = @ + 1, !.pc = "fetch", !.quote = None])
    ELSE None

\* The task after it is done with the current symbol: the next symbol of the
\* list, or None when the list is exhausted (an immediate update has one symbol).
AfterSymbol(task) ==
    IF task.pos < Len(task.symbols)
    THEN Some([task EXCEPT !.pos = @ + 1, !.pc = "fetch", !.quote = None])
    ELSE None

\* The counters of update_stocks_by_priority (an immediate update has none).
Failed(task) ==
    IF task.id.kind = "tier" THEN [task EXCEPT !.failed_updates = @ + 1] ELSE task

Successful(task) ==
    IF task.id.kind = "tier" THEN [task EXCEPT !.successful_updates = @ + 1] ELSE task

\* tasks with `task` replaced by what is left of it.
Continue(task, rest) ==
    (tasks \ {task}) \cup (IF rest = None THEN {} ELSE {rest[1]})

\* ---------------------------------------------------------- the scheduler
\* Variant: every tier is due at every tick.
ShouldUpdatePriorityEveryTick(times, priority, t) == TRUE

\* PriorityScheduler::should_update_priority
ShouldUpdatePriority(times, priority, t) ==
    \/ times[priority] = None
    \/ t - times[priority][1] >= UpdateIntervalSeconds(priority)

\* One iteration of run_scheduler's loop: the tick, then for each tier the
\* spawn of its refresh task and the insert into last_update_times.
Tick ==
    /\ now = next_tick
    /\ LET due == {p \in Tiers : ShouldUpdatePriority(last_update_times, p, now)}
       IN  /\ tasks' = tasks \cup {TierTask(p, now) : p \in due}
           /\ last_update_times' =
                  [p \in Tiers |-> IF p \in due THEN Some(now) ELSE last_update_times[p]]
    /\ next_tick' = now + TickSeconds
    /\ ev' = Event("tick", "", NoTask, TRUE)
    /\ UNCHANGED others
    /\ UNCHANGED <<now, stocks, watchlist, market_data, next_id, req, retry>>

\* Time passes until the next tick is due.  Sleeping tasks and idle handlers
\* let it pass; the scheduler loop itself never lets a tick wait.
Advance(maxTicks) ==
    /\ now < next_tick
    /\ next_tick <= maxTicks * TickSeconds
    /\ now' = next_tick
    /\ ev' = Event("advance", "", NoTask, TRUE)
    /\ UNCHANGED others
    /\ UNCHANGED <<stocks, watchlist, market_data, last_update_times, next_tick,
                   tasks, next_id, req, retry>>

\* update_stocks_by_priority, line 87: the due-set query.  An Err ends the
\* task (the ? operator); an empty list ends it with Ok.
Scan(task, dbOk) ==
    /\ task.id.kind = "tier"
    /\ task.pc = "scan"
    /\ IF ~dbOk
       THEN /\ tasks' = tasks \ {task}
            /\ ev' = [Event("scan", "", task.id, FALSE) EXCEPT !.done = TRUE]
       ELSE \E q \in DueLists(stocks, task.id.priority, now) :
              /\ tasks' = IF q = <<>> THEN tasks \ {task}
                          ELSE (tasks \ {task}) \cup
                               {[task EXCEPT !.symbols = q, !.pos = 1, !.pc = "fetch"]}
              /\ ev' = [Event("scan", "", task.id, TRUE)
                           EXCEPT !.symbols = q, !.done = (q = <<>>)]
    /\ UNCHANGED others
    /\ UNCHANGED <<now, stocks, watchlist, market_data, last_update_times,
                   next_tick, next_id, req, retry>>

\* Variant: every failed fetch marks the stock.
AfterQuoteMarkAnyFailure(tbl, symbol, outcome, markOk, t) ==
    IF outcome # "ok" /\ markOk
    THEN MarkStockAsDelistedRow(tbl, symbol, t)
    ELSE tbl

\* The stocks table after fetch_current_quote_with_delisting_check: the
\* delisting arm marks the stock; a failure of that UPDATE is only logged.
AfterQuote(tbl, symbol, outcome, markOk, t) ==
    IF outcome = "delisting" /\ markOk
    THEN MarkStockAsDelistedRow(tbl, symbol, t)
    ELSE tbl

\* The fetch of the current symbol, in a tier task (line 115) and in an
\* immediate update (line 195) alike.
Fetch(task, answer, markOk) ==
    /\ task.pc = "fetch"
    /\ LET symbol == CurrentSymbol(task)
           outcome == QuoteOutcome(symbol, answer)
           seen == [task EXCEPT !.fetched = Append(@, symbol)]
           rest == AfterSymbol(Failed(seen))
       IN  /\ stocks' = AfterQuote(stocks, symbol, outcome, markOk, now)
           /\ IF outcome = "ok"
              THEN tasks' = (tasks \ {task}) \cup
                            {[seen EXCEPT !.pc = "store", !.quote = Some(now)]}
              ELSE tasks' = Continue(task, rest)
           /\ retry' = IF outcome = "error" THEN retry \cup {symbol}
                        ELSE retry \ {symbol}
           /\ ev' = TaskEvent("fetch_" \o outcome, seen, markOk,
                           outcome # "ok" /\ rest = None)
    /\ UNCHANGED others
    /\ UNCHANGED <<now, watchlist, market_data, last_update_times, next_tick,
                   next_id, req>>

\* store_market_data of the quote.  On Err a tier task counts a failure and
\* goes on to the next symbol; an immediate update returns the Err.
Store(task, dbOk) ==
    /\ task.pc = "store"
    /\ market_data' = IF dbOk THEN StoreMarketData(market_data, MarketDataOf(task))
                      ELSE market_data
    /\ tasks' = IF dbOk THEN (tasks \ {task}) \cup {[task EXCEPT !.pc = "stamp"]}
                ELSE Continue(task, AfterSymbol(Failed(task)))
    /\ ev' = TaskEvent("store", task, dbOk, ~dbOk /\ AfterSymbol(Failed(task)) = None)
    /\ UNCHANGED others
    /\ UNCHANGED <<now, stocks, watchlist, last_update_times, next_tick, next_id, req,
                   retry>>

\* update_stock_price_timestamp after a successful store.  Its Err is logged
\* by a tier task and returned by an immediate update; both are done with the
\* symbol then.
Stamp(task, dbOk) ==
    /\ task.pc = "stamp"
    /\ stocks' = IF dbOk THEN UpdateStockPriceTimestampRow(stocks, CurrentSymbol(task), now)
                 ELSE stocks
    /\ tasks' = Continue(task, AfterSymbol(Successful(task)))
    /\ retry' = IF dbOk THEN retry \ {CurrentSymbol(task)} ELSE retry
    /\ ev' = TaskEvent("stamp", task, dbOk, AfterSymbol(Successful(task)) = None)
    /\ UNCHANGED others
    /\ UNCHANGED <<now, watchlist, market_data, last_update_times, next_tick,
                   next_id, req>>


\* ------------------------------------------------------ watchlist handlers
Request(op, symbol, pc) == Some([op |-> op, symbol |-> symbol, pc |-> pc])

\* handlers::watchlist::add_to_watchlist, line 27: Database::add_to_watchlist.
\* INSERT ... ON CONFLICT DO NOTHING RETURNING with fetch_one: a pair already
\* present returns no row, which is an Err like a failed statement, and the
\* ? operator ends the handler.
AddInsert(user, symbol, dbOk) ==
    /\ req[user] = None
    /\ next_id < MaxImmediate
    /\ IF dbOk /\ <<user, symbol>> \notin watchlist
       THEN /\ watchlist' = watchlist \cup {<<user, symbol>>}
            /\ req' = [req EXCEPT ![user] = Request("add", symbol, "set_priority")]
            /\ ev' = Event("add_insert", symbol, NoTask, TRUE)
       ELSE /\ UNCHANGED <<watchlist, req>>
            /\ ev' = Event("add_insert", symbol, NoTask, FALSE)
    /\ UNCHANGED others
    /\ UNCHANGED <<now, stocks, market_data, last_update_times, next_tick, tasks,
                   next_id, retry>>

\* add_to_watchlist, lines 30-45: set_stock_priority(High), whose Err is only
\* logged, then the spawn of trigger_immediate_update, then the response.
AddSetPriority(user, dbOk) ==
    /\ req[user] # None
    /\ req[user][1].pc = "set_priority"
    /\ LET symbol == req[user][1].symbol
           task == ImmediateTask(symbol, next_id + 1)
       IN  /\ stocks' = IF dbOk THEN SetStockPriorityRow(stocks, symbol, "High") ELSE stocks
           /\ tasks' = tasks \cup {task}
           /\ ev' = Event("add_done", symbol, task.id, dbOk)
    /\ next_id' = next_id + 1
    /\ req' = [req EXCEPT ![user] = None]
    /\ UNCHANGED others
    /\ UNCHANGED <<now, watchlist, market_data, last_update_times, next_tick, retry>>

\* handlers::watchlist::remove_from_watchlist, line 53: the DELETE.
RemoveDelete(user, symbol, dbOk) ==
    /\ req[user] = None
    /\ IF dbOk
       THEN /\ watchlist' = watchlist \ {<<user, symbol>>}
            /\ req' = [req EXCEPT ![user] = Request("remove", symbol, "check")]
       ELSE UNCHANGED <<watchlist, req>>
    /\ ev' = Event("remove_delete", symbol, NoTask, dbOk)
    /\ UNCHANGED others
    /\ UNCHANGED <<now, stocks, market_data, last_update_times, next_tick, tasks,
                   next_id, retry>>

\* remove_from_watchlist, lines 56-57: get_watchlist_symbols().unwrap_or_default()
\* (an Err is the empty list) and the contains test.
RemoveCheck(user, dbOk) ==
    /\ req[user] # None
    /\ req[user][1].pc = "check"
    /\ LET symbol == req[user][1].symbol
           watchlist_symbols == IF dbOk THEN WatchlistSymbols(watchlist) ELSE {}
       IN  IF symbol \in watchlist_symbols
           THEN /\ req' = [req EXCEPT ![user] = None]
                /\ ev' = Event("remove_done", symbol, NoTask, dbOk)
           ELSE /\ req' = [req EXCEPT ![user] = Request("remove", symbol, "demote")]
                /\ ev' = Event("remove_check", symbol, NoTask, dbOk)
    /\ UNCHANGED others
    /\ UNCHANGED <<now, stocks, watchlist, market_data, last_update_times, next_tick,
                   tasks, next_id, retry>>

\* remove_from_watchlist, lines 58-63: set_stock_priority(Medium), whose Err is
\* only logged, then the response.
RemoveDemote(user, dbOk) ==
    /\ req[user] # None
    /\ req[user][1].pc = "demote"
    /\ LET symbol == req[user][1].symbol
       IN  /\ stocks' = IF dbOk THEN SetStockPriorityRow(stocks, symbol, "Medium")
                        ELSE stocks
           /\ ev' = Event("remove_done", symbol, NoTask, dbOk)
    /\ req' = [req EXCEPT ![user] = None]
    /\ UNCHANGED others
    /\ UNCHANGED <<now, watchlist, market_data, last_update_times, next_tick,
                   tasks, next_id, retry>>

\* ------------------------------------------------ stock list and operator
\* One create_stock call of update_stock_list.  The INSERT names no priority:
\* a new row takes the column default, which the schema sets (any tier).
CreateStock(symbol, priority) ==
    /\ stocks' = CreateStockRow(stocks, symbol, priority)
    /\ ev' = Event("create_stock", symbol, NoTask, TRUE)
    /\ UNCHANGED others
    /\ UNCHANGED <<now, watchlist, market_data, last_update_times, next_tick,
                   tasks, next_id, req, retry>>

\* Database::update_stock_status, called by an operator.
UpdateStockStatus(symbol, is_active) ==
    /\ stocks' = UpdateStockStatusRow(stocks, symbol, is_active)
    /\ ev' = Event("update_stock_status", symbol, NoTask, is_active)
    /\ UNCHANGED others
    /\ UNCHANGED <<now, watchlist, market_data, last_update_times, next_tick,
                   tasks, next_id, req, retry>>

\* Database::update_stock_priority_and_interval, called with any tier and any
\* of the intervals in use.
UpdateStockPriorityAndInterval(symbol, priority, interval_seconds) ==
    /\ stocks' = UpdateStockPriorityAndIntervalRow(stocks, symbol, priority, interval_seconds)
    /\ ev' = Event("update_stock_priority_and_interval", symbol, NoTask, TRUE)
    /\ UNCHANGED others
    /\ UNCHANGED <<now, watchlist, market_data, last_update_times, next_tick,
                   tasks, next_id, req, retry>>

\* ---------------------------------------------------- the specifications
\* A stocks row as the database may hold it when the process starts.
StoredRow(priority, last_price_update, is_active) ==
    [NewStockRow(priority) EXCEPT !.last_price_update = last_price_update,
                                  !.is_active = is_active]

InitWith(rows) ==
    /\ now = 0
    /\ stocks \in rows
    /\ watchlist = {}
    /\ market_data = {}
    /\ last_update_times = [p \in Tiers |-> None]
    /\ next_tick = 0
    /\ tasks = {}
    /\ next_id = 0
    /\ req = [u \in Users |-> None]
    /\ InitOthers
    /\ retry = {}
    /\ ev = Event("init", "", NoTask, TRUE)

\* Every operation on one symbol and for one user.
Next ==
    \/ Tick
    \/ Advance(MaxTicks)
    \/ \E task \in tasks, dbOk \in BOOLEAN : Scan(task, dbOk)
    \/ \E task \in tasks, answer \in ProviderAnswers, markOk \in BOOLEAN :
           Fetch(task, answer, markOk)
    \/ \E task \in tasks, dbOk \in BOOLEAN : Store(task, dbOk)
    \/ \E task \in tasks, dbOk \in BOOLEAN : Stamp(task, dbOk)
    \/ \E dbOk \in BOOLEAN : AddInsert("u1", "AAA", dbOk)
    \/ \E dbOk \in BOOLEAN : AddSetPriority("u1", dbOk)
    \/ \E dbOk \in BOOLEAN : RemoveDelete("u1", "AAA", dbOk)
    \/ \E dbOk \in BOOLEAN : RemoveCheck("u1", dbOk)
    \/ \E dbOk \in BOOLEAN : RemoveDemote("u1", dbOk)
    \/ \E priority \in Tiers : CreateStock("AAA", priority)
    \/ \E is_active \in BOOLEAN : UpdateStockStatus("AAA", is_active)

Spec == Init /\ [][Next]_vars

\* Every operation that touches a stock record, on one symbol and for one
\* user, around the tick after which only the High tier is due: the process
\* started 60 s ago, its first tick spawned every tier, those tasks are done
\* and the stocks table is empty.
InitStatus ==
    /\ now = 0
    /\ stocks = [s \in Symbols |-> None]
    /\ watchlist = {}
    /\ market_data = {}
    /\ last_update_times = [p \in Tiers |-> Some(0 - HighIntervalSeconds)]
    /\ next_tick = 0
    /\ tasks = {}
    /\ next_id = 0
    /\ req = [u \in Users |-> None]
    /\ InitOthers
    /\ retry = {}
    /\ ev = Event("init", "", NoTask, TRUE)

NextStatus ==
    \/ Tick
    \/ \E task \in tasks, dbOk \in BOOLEAN : Scan(task, dbOk)
    \/ \E task \in tasks, answer \in ProviderAnswers, markOk \in BOOLEAN :
           Fetch(task, answer, markOk)
    \/ \E task \in tasks, dbOk \in BOOLEAN : Store(task, dbOk)
    \/ \E task \in tasks, dbOk \in BOOLEAN : Stamp(task, dbOk)
    \/ \E dbOk \in BOOLEAN : AddInsert("u1", "AAA", dbOk)
    \/ \E dbOk \in BOOLEAN : AddSetPriority("u1", dbOk)
    \/ \E dbOk \in BOOLEAN : RemoveDelete("u1", "AAA", dbOk)
    \/ \E dbOk \in BOOLEAN : RemoveCheck("u1", dbOk)
    \/ \E dbOk \in BOOLEAN : RemoveDemote("u1", dbOk)
    \/ \E priority \in Tiers : CreateStock("AAA", priority)
    \/ \E is_active \in BOOLEAN : UpdateStockStatus("AAA", is_active)

SpecStatus == InitStatus /\ [][NextStatus]_vars

\* The scheduler and its tier tasks over two symbols the database already
\* holds, never price-updated: both Medium, or one High and one Medium.
RefreshRows ==
    {[s \in Symbols |-> Some(StoredRow(IF s = "AAA" THEN p ELSE "Medium", None, TRUE))] :
        p \in {"High", "Medium"}}

InitRefresh == InitWith(RefreshRows)

NextRefresh ==
    \/ Tick
    \/ Advance(MaxTicks)
    \/ \E task \in tasks, dbOk \in BOOLEAN : Scan(task, dbOk)
    \/ \E task \in tasks, answer \in ProviderAnswers, markOk \in BOOLEAN :
           Fetch(task, answer, markOk)
    \/ \E task \in tasks, dbOk \in BOOLEAN : Store(task, dbOk)
    \/ \E task \in tasks, dbOk \in BOOLEAN : Stamp(task, dbOk)

SpecRefresh == InitRefresh /\ [][NextRefresh]_vars


\* The due-set query on rows of every tier, of every age around the tier's
\* interval, active and inactive, as an earlier run may have left them.
DueAges(priority) ==
    {None} \cup {Some(0 - (UpdateIntervalSeconds(priority) + d)) : d \in {-1, 0, 1}}

DueRows ==
    UNION {{[s \in Symbols |-> IF s = "AAA" THEN Some(StoredRow(p, last, active))
                              ELSE Some(StoredRow("Medium", None, TRUE))] :
               last \in DueAges(p) \cup DueAges("High"), active \in BOOLEAN} :
           p \in Tiers}

InitDue == InitWith(DueRows)

SpecDue == InitDue /\ [][NextRefresh]_vars

\* One user's watchlist add of a Low symbol beside the scheduler: the symbol
\* was never price-updated, or was updated 5 s before the process started.
WatchRows ==
    {[s \in Symbols |-> IF s = "AAA" THEN Some(StoredRow("Low", last, TRUE)) ELSE None] :
        last \in {None, Some(-5)}}

InitWatch == InitWith(WatchRows)

NextWatch ==
    \/ Tick
    \/ Advance(MaxWatchTicks)
    \/ \E task \in tasks, dbOk \in BOOLEAN : Scan(task, dbOk)
    \/ \E task \in tasks, answer \in ProviderAnswers, markOk \in BOOLEAN :
           Fetch(task, answer, markOk)
    \/ \E task \in tasks, dbOk \in BOOLEAN : Store(task, dbOk)
    \/ \E task \in tasks, dbOk \in BOOLEAN : Stamp(task, dbOk)
    \/ \E dbOk \in BOOLEAN : AddInsert("u1", "AAA", dbOk)
    \/ \E dbOk \in BOOLEAN : AddSetPriority("u1", dbOk)

SpecWatch == InitWatch /\ [][NextWatch]_vars

\* The watchlist handlers of two users on one symbol that has a stock record;
\* the query of remove_from_watchlist succeeds.
HandlerRows ==
    {[s \in Symbols |-> IF s = "AAA" THEN Some(StoredRow(p, None, TRUE)) ELSE None] :
        p \in Tiers}

InitHandlers == InitWith(HandlerRows)

NextHandlers ==
    \/ \E user \in Users, dbOk \in BOOLEAN : AddInsert(user, "AAA", dbOk)
    \/ \E user \in Users, dbOk \in BOOLEAN : AddSetPriority(user, dbOk)
    \/ \E user \in Users, dbOk \in BOOLEAN : RemoveDelete(user, "AAA", dbOk)
    \/ \E user \in Users : RemoveCheck(user, TRUE)
    \/ \E user \in Users, dbOk \in BOOLEAN : RemoveDemote(user, dbOk)

SpecHandlers == InitHandlers /\ [][NextHandlers]_vars

\* Every operation that writes a tier or an interval, on one symbol.
NextTier ==
    \/ NextHandlers
    \/ \E priority \in Tiers : CreateStock("AAA", priority)
    \/ \E priority \in Tiers, interval_seconds \in {UpdateIntervalSeconds(p) : p \in Tiers} :
           UpdateStockPriorityAndInterval("AAA", priority, interval_seconds)

SpecTier == InitHandlers /\ [][NextTier]_vars

\* The cache getters and setters of the three caches, clear_cache and the
\* passing of time: two keys of the bar cache, one of them cached with two
\* values, and one key of each other cache.
CachedData ==
    {<<"stock_data_cache", "k1", v>> : v \in {"v1", "v2"}}
        \cup {<<"stock_data_cache", "k2", "v1">>, <<"indicators_cache", "k1", "v1">>,
              <<"tickers_cache", "k1", "v1">>}

NextCache ==
    \/ \E d \in CachedData, lag \in {0, 1} : CacheData(d[1], d[2], d[3], lag)
    \/ \E d \in CachedData : GetData(d[1], d[2])
    \/ ClearCache
    \/ \E t \in Instants : Elapse(t)

SpecCache == Init /\ [][NextCache]_vars

\* The rate limiter, clear_cache and the passing of time.
NextRateLimit ==
    \/ \E identifier \in CacheKeys, min_interval \in {1, CacheTtlSeconds} :
           ShouldRateLimit(identifier, min_interval)
    \/ ClearCache
    \/ \E t \in Instants : Elapse(t)

SpecRateLimit == Init /\ [][NextRateLimit]_vars

\* Callers of should_rate_limit on the threads of the runtime, and the
\* passing of time.
NextLimiterCalls ==
    \/ \E caller \in Users, identifier \in CacheKeys,
          min_interval \in {1, CacheTtlSeconds} :
           RateLimitGet(caller, identifier, min_interval)
    \/ \E caller \in Users : RateLimitInsert(caller)
    \/ \E t \in Instants : Elapse(t)

SpecLimiterCalls == Init /\ [][NextLimiterCalls]_vars

\* The classification of an error text.
InitClassify ==
    /\ Constructed
    /\ \E error_msg \in ErrorMessages : ev = [op |-> "error", msg |-> error_msg]

SpecClassify == InitClassify /\ [][ClassifyError]_vars

\* A CustomRSI of a period up to MaxPeriod, fed up to MaxBars closes.
InitRsi ==
    /\ Constructed
    /\ \E period \in 1..MaxPeriod :
           ev = [op |-> "new", rsi |-> NewRsi(period), out |-> None,
                 closes |-> <<>>, outs |-> <<>>]

NextRsi == \E close \in 1..4 : RsiStep(close)

SpecRsi == InitRsi /\ [][NextRsi]_vars

\* The closes of the bar series handed to calculate_indicators: one bar; 16
\* and 17 bars that fall, stay or rise by 1 a bar, with or without a wobble of
\* 2 on every other bar; the 20 closes 100, 101, ..., 119.
StockData ==
    {[i \in 1..n |-> 100 + step * (i - 1) + wobble * (i % 2)] :
        n \in {1, 16, 17}, step \in {0 - 1, 0, 1}, wobble \in {0, 2}}
        \cup {[i \in 1..Sma20Period |-> 99 + i]}

NextAnalyzer ==
    \E symbol \in Symbols, stock_data \in StockData :
        CalculateIndicators(symbol, stock_data)

SpecAnalyzer == Init /\ [][NextAnalyzer]_vars

\* A call at hand: a batch calculator on a series of up to MaxSeries bars,
\* calculate_indicators of a new analyzer on a series of closes, the
\* is_opportunity of an analysis path for an RSI and the thresholds of the
\* caller's filter, analyze_signals on a bar and a snapshot, the
\* IndicatorService on the latest rows of a symbol as the database or a
\* caller orders them, or filter_tickers_with_analysis on up to two tickers.
InitCalc ==
    /\ Constructed
    /\ \/ \E n \in 0..MaxSeries, period \in Periods : \E data \in [1..n -> Bars] :
              \/ ev = [op |-> "call", of |-> "AverageTrueRange",
                       period |-> period, data |-> data]
              \/ \E std_dev_multiplier \in {<<0, 1>>, <<2, 1>>} :
                     ev = [op |-> "call", of |-> "BollingerBands", period |-> period,
                           std_dev_multiplier |-> std_dev_multiplier, data |-> data]
              \/ \E d_period \in Periods :
                     ev = [op |-> "call", of |-> "StochasticOscillator",
                           period |-> period, d_period |-> d_period, data |-> data]
              \/ ev = [op |-> "call", of |-> "CommodityChannelIndex",
                       period |-> period, factor |-> <<3, 200>>, data |-> data]
              \/ /\ period = 1
                 /\ ev = [op |-> "call", of |-> "MovingAverageConvergenceDivergence",
                          periods |-> <<3, 7, 3>>, data |-> data]
       \/ \E n \in {0, 1, Sma20Period - 1, Sma20Period, Sma20Period + 1,
                     Sma50Period - 1, Sma50Period, Sma50Period + 1},
             step \in {0 - 1, 0, 1}, newest_first \in BOOLEAN :
              ev = [op |-> "call", of |-> "IndicatorService",
                    data |-> [i \in 1..n |->
                                 LET t == IF newest_first THEN n + 1 - i ELSE i
                                 IN  [timestamp |-> t, close |-> 100 + step * t]]]
       \/ \E n \in 1..2,
             min_rsi \in {None, Some(40)}, max_rsi \in {None, Some(60)},
             oversold \in {None, Some(OversoldRsi)},
             overbought \in {None, Some(OverboughtRsi)} :
              \E tickers \in [1..n ->
                                 [passes_basic_filters : BOOLEAN,
                                  rsi : {[ok |-> FALSE, value |-> None]} \cup
                                        {[ok |-> TRUE, value |-> v] :
                                            v \in {None, Some(25), Some(50), Some(75)}}]] :
                 ev = [op |-> "call", of |-> "filter_tickers_with_analysis",
                       tickers |-> tickers,
                       filter |-> [min_rsi |-> min_rsi, max_rsi |-> max_rsi,
                                   oversold_rsi_threshold |-> oversold,
                                   overbought_rsi_threshold |-> overbought]]
       \/ \E symbol \in Symbols, stock_data \in StockData :
              ev = [op |-> "call", of |-> "calculate_indicators",
                    symbol |-> symbol, stock_data |-> stock_data]
       \/ \E rsi \in {None} \cup {Some(r) : r \in {20, 25, 29, 30, 31, 50, 69, 70, 71, 75, 80}},
             oversold \in {None, Some(20), Some(30)},
             overbought \in {None, Some(70), Some(80)} :
              LET filter == [oversold_rsi_threshold |-> oversold,
                             overbought_rsi_threshold |-> overbought]
              IN  \/ \E path \in {"run_analysis", "run_continuous_analysis"} :
                         ev = [op |-> "call", of |-> "is_opportunity",
                               path |-> path, rsi |-> rsi, filter |-> filter]
                  \/ \E close \in 1..3, sma_20 \in {None, Some(1), Some(2)},
                        sma_50 \in {None, Some(1), Some(2)},
                        macd \in {None, Some(<<1, 0, 1>>), Some(<<0, 1, 0 - 1>>),
                                  Some(<<0, 0, 0>>)} :
                         ev = [op |-> "call", of |-> "analyze_signals",
                               data |-> [close |-> close],
                               snapshot |-> [sma_20 |-> sma_20, sma_50 |-> sma_50,
                                             rsi |-> rsi, macd |-> macd],
                               filter |-> filter]

NextCalc ==
    \/ Calculate
    \/ /\ ev.op = "call"
       /\ ev.of = "calculate_indicators"
       /\ CalculateIndicators(ev.symbol, ev.stock_data)

SpecCalc == InitCalc /\ [][NextCalc]_vars

\* ---------------------------------------------------------------------
\* Alerts: the handlers and the evaluator.
\* ---------------------------------------------------------------------

\* handlers::alerts::create_alert: a row of alerts under a fresh id, owned by
\* the requesting user and active.
CreateAlert(user_id, id, dbOk) ==
    /\ alerts[id] = None
    /\ alert_triggers[id] = 0
    /\ \A i \in 1..Len(evaluator.alerts) : evaluator.alerts[i].id # id
    /\ alerts' = IF dbOk
                 THEN [alerts EXCEPT ![id] = Some([user_id |-> user_id, is_active |-> TRUE])]
                 ELSE alerts
    /\ ev' = [op |-> "create_alert", user_id |-> user_id, id |-> id, ok |-> dbOk]
    /\ UNCHANGED <<now, cache, indicators, log>>
    /\ UNCHANGED <<calls, all_results, sessions, runs, alert_triggers, evaluator>>
    /\ UNCHANGED sched

\* handlers::alerts::update_alert: UPDATE alerts SET is_active = false
\* WHERE id = $3.
UpdateAlert(user_id, id, dbOk) ==
    /\ alerts' = IF dbOk /\ alerts[id] # None
                 THEN [alerts EXCEPT ![id] = Some([alerts[id][1] EXCEPT !.is_active = FALSE])]
                 ELSE alerts
    /\ ev' = [op |-> "update_alert", user_id |-> user_id, id |-> id, ok |-> dbOk]
    /\ UNCHANGED <<now, cache, indicators, log>>
    /\ UNCHANGED <<calls, all_results, sessions, runs, alert_triggers, evaluator>>
    /\ UNCHANGED sched

\* handlers::alerts::delete_alert: DELETE FROM alerts WHERE id = $1 AND
\* user_id = $2.
DeleteAlert(user_id, id, dbOk) ==
    /\ alerts' = IF dbOk /\ alerts[id] # None /\ alerts[id][1].user_id = user_id
                 THEN [alerts EXCEPT ![id] = None]
                 ELSE alerts
    /\ ev' = [op |-> "delete_alert", user_id |-> user_id, id |-> id, ok |-> dbOk]
    /\ UNCHANGED <<now, cache, indicators, log>>
    /\ UNCHANGED <<calls, all_results, sessions, runs, alert_triggers, evaluator>>
    /\ UNCHANGED sched

\* One tick of start_alert_evaluator: evaluate_alerts reads the active alerts,
\* in any order; an Err of the query is logged and the cycle is over.
EvaluateAlerts(dbOk) ==
    /\ evaluator.pc = "tick"
    /\ evaluator.cycle < MaxCycles
    /\ LET active == {id \in AlertIds : alerts[id] # None /\ alerts[id][1].is_active}
       IN  \E order \in [1..Cardinality(active) -> active] :
              /\ \A i, j \in 1..Cardinality(active) : i # j => order[i] # order[j]
              /\ LET rows == IF dbOk
                             THEN [i \in 1..Cardinality(active) |->
                                      [id |-> order[i], user_id |-> alerts[order[i]][1].user_id]]
                             ELSE <<>>
                 IN  evaluator' = [pc |-> IF rows = <<>> THEN "tick" ELSE "evaluate",
                                   alerts |-> rows,
                                   cycle |-> evaluator.cycle + 1]
              /\ ev' = [op |-> "evaluate_alerts", ok |-> dbOk,
                        ids |-> IF dbOk THEN active ELSE {}]
    /\ UNCHANGED <<now, cache, indicators, log>>
    /\ UNCHANGED <<calls, all_results, sessions, runs, alerts, alert_triggers>>
    /\ UNCHANGED sched

\* evaluate_single_alert on the next alert of the list read by evaluate_alerts.
\* The outcome of the reads is "error" (a query failed), "no_data" (no market
\* data), "not_met" or "met"; a met condition inserts the trigger and then
\* deactivates the alert, and an Err of either statement ends the evaluation
\* of this alert.
EvaluateSingleAlert(outcome, triggerOk, updateOk) ==
    /\ evaluator.pc = "evaluate"
    /\ LET alert == Head(evaluator.alerts)
           rest == Tail(evaluator.alerts)
           triggered == outcome = "met"
           created == triggered /\ triggerOk
           updated == created /\ updateOk
       IN  /\ alert_triggers' = IF created
                                THEN [alert_triggers EXCEPT ![alert.id] = @ + 1]
                                ELSE alert_triggers
           /\ alerts' = IF updated /\ alerts[alert.id] # None
                        THEN [alerts EXCEPT ![alert.id] =
                                 Some([alerts[alert.id][1] EXCEPT !.is_active = FALSE])]
                        ELSE alerts
           /\ evaluator' = [evaluator EXCEPT !.alerts = rest,
                                             !.pc = IF rest = <<>> THEN "tick" ELSE "evaluate"]
           /\ ev' = [op |-> "evaluate_single_alert", id |-> alert.id,
                     outcome |-> outcome, created |-> created, updated |-> updated,
                     cycle |-> evaluator.cycle]
    /\ UNCHANGED <<now, cache, indicators, log>>
    /\ UNCHANGED <<calls, all_results, sessions, runs>>
    /\ UNCHANGED sched

NextAlerts ==
    \/ \E user_id \in Users, id \in AlertIds, dbOk \in BOOLEAN :
          \/ CreateAlert(user_id, id, dbOk)
          \/ UpdateAlert(user_id, id, dbOk)
          \/ DeleteAlert(user_id, id, dbOk)
    \/ \E dbOk \in BOOLEAN : EvaluateAlerts(dbOk)
    \/ \E outcome \in {"error", "no_data", "not_met", "met"},
          triggerOk \in BOOLEAN, updateOk \in BOOLEAN :
          EvaluateSingleAlert(outcome, triggerOk, updateOk)

\* The alert handlers of two users beside MaxCycles ticks of the evaluator.
SpecAlerts == Init /\ [][NextAlerts]_vars

\* ---------------------------------------------------------------------
\* The shared result list of the continuous analysis.
\* ---------------------------------------------------------------------

UpdateAllResultsKeepingPrevious(ticker, rsi) ==
    LET result == [ticker |-> ticker, rsi |-> rsi]
    IN  /\ all_results' = Append(all_results, result)
        /\ ev' = [op |-> "all_results_update", ticker |-> ticker, result |-> result,
                  previous |-> SelectSeq(all_results, LAMBDA r : r.ticker = ticker)]
        /\ UNCHANGED <<now, cache, indicators, log>>
        /\ UNCHANGED <<calls, sessions, runs, alerts, alert_triggers, evaluator>>
        /\ UNCHANGED sched

\* run_continuous_analysis with the result of one ticker at hand: under the
\* write lock of all_results, the entries of the ticker are removed and the
\* new result is pushed.  The guard is held from the retain to the push, so
\* no reader and no other writer sees the list in between.
UpdateAllResults(ticker, rsi) ==
    LET result == [ticker |-> ticker, rsi |-> rsi]
    IN  /\ all_results' = Append(SelectSeq(all_results, LAMBDA r : r.ticker # ticker),
                                 result)
        /\ ev' = [op |-> "all_results_update", ticker |-> ticker, result |-> result,
                  previous |-> SelectSeq(all_results, LAMBDA r : r.ticker = ticker)]
        /\ UNCHANGED <<now, cache, indicators, log>>
        /\ UNCHANGED <<calls, sessions, runs, alerts, alert_triggers, evaluator>>
        /\ UNCHANGED sched

\* get_filtered_results when there is no database or its query fails: under
\* the read lock, the results that pass the RSI bounds of the filter.
GetFilteredResults(min_rsi, max_rsi) ==
    /\ ev' = [op |-> "get_filtered_results",
              results |-> SelectSeq(all_results,
                              LAMBDA result :
                                  /\ min_rsi # None =>
                                         ~(result.rsi = None \/ result.rsi[1] < min_rsi[1])
                                  /\ max_rsi # None =>
                                         ~(result.rsi = None \/ result.rsi[1] > max_rsi[1]))]
    /\ UNCHANGED <<now, cache, indicators, log>>
    /\ UNCHANGED app
    /\ UNCHANGED sched

NextResults ==
    \/ \E ticker \in Symbols, rsi \in {None, Some(25), Some(75)} :
          UpdateAllResults(ticker, rsi)
    \/ \E min_rsi \in {None, Some(50)}, max_rsi \in {None, Some(50)} :
          GetFilteredResults(min_rsi, max_rsi)

\* The continuous analysis storing results beside readers of the list.
SpecResults == Init /\ [][NextResults]_vars

\* ---------------------------------------------------------------------
\* On-demand analysis sessions.
\* ---------------------------------------------------------------------

\* start_analysis: the initial status is stored under a fresh session id and
\* run_analysis is spawned.
StartAnalysis(id) ==
    /\ sessions[id] = None
    /\ runs[id] = None
    /\ sessions' = [sessions EXCEPT ![id] =
                       Some([status |-> "running", progress |-> <<0, 1>>,
                             analyzed_count |-> 0, total_count |-> 0,
                             error_message |-> None])]
    /\ runs' = [runs EXCEPT ![id] = Some([pc |-> "fetch_tickers"])]
    /\ ev' = [op |-> "start_analysis", id |-> id]
    /\ UNCHANGED <<now, cache, indicators, log>>
    /\ UNCHANGED <<calls, all_results, alerts, alert_triggers, evaluator>>
    /\ UNCHANGED sched

\* run_analysis up to the loop: the stored status is read, the tickers are
\* fetched, and either the error or the total count is stored.  Nothing but
\* this task writes the session, so the read and the insert are one step.
RunFetchTickers(id, fetchOk, max_analysis) ==
    /\ runs[id] # None
    /\ runs[id][1].pc = "fetch_tickers"
    /\ LET current_status ==
               IF fetchOk
               THEN [sessions[id][1] EXCEPT !.total_count = max_analysis]
               ELSE [sessions[id][1] EXCEPT !.status = "error",
                                             !.error_message = Some("Failed to fetch tickers")]
       IN  /\ sessions' = [sessions EXCEPT ![id] = Some(current_status)]
           /\ runs' = [runs EXCEPT ![id] =
                          IF fetchOk
                          THEN Some([pc |-> "loop", current_status |-> current_status,
                                     max_analysis |-> max_analysis, i |-> 0])
                          ELSE Some([pc |-> "done"])]
    /\ ev' = [op |-> "run_analysis", id |-> id, step |-> "fetch_tickers"]
    /\ UNCHANGED <<now, cache, indicators, log>>
    /\ UNCHANGED <<calls, all_results, alerts, alert_triggers, evaluator>>
    /\ UNCHANGED sched

\* One turn of the loop of run_analysis: the counts of the task's status
\* advance, and the status is stored on every fifth ticker and on the last.
RunAnalyzeTicker(id) ==
    /\ runs[id] # None
    /\ runs[id][1].pc = "loop"
    /\ runs[id][1].i < runs[id][1].max_analysis
    /\ LET run == runs[id][1]
           current_status ==
               [run.current_status EXCEPT
                   !.analyzed_count = run.i + 1,
                   !.progress = Frac(run.i + 1, run.max_analysis)]
       IN  /\ sessions' = IF (run.i + 1) % 5 = 0 \/ run.i + 1 = run.max_analysis
                          THEN [sessions EXCEPT ![id] = Some(current_status)]
                          ELSE sessions
           /\ runs' = [runs EXCEPT ![id] =
                          Some([run EXCEPT !.current_status = current_status,
                                           !.i = run.i + 1])]
    /\ ev' = [op |-> "run_analysis", id |-> id, step |-> "ticker"]
    /\ UNCHANGED <<now, cache, indicators, log>>
    /\ UNCHANGED <<calls, all_results, alerts, alert_triggers, evaluator>>
    /\ UNCHANGED sched

RunCompleteKeepingProgress(id) ==
    /\ runs[id] # None
    /\ runs[id][1].pc = "loop"
    /\ runs[id][1].i = runs[id][1].max_analysis
    /\ sessions' = [sessions EXCEPT ![id] =
                       Some([runs[id][1].current_status EXCEPT
                                !.status = "completed"])]
    /\ runs' = [runs EXCEPT ![id] = Some([pc |-> "done"])]
    /\ ev' = [op |-> "run_analysis", id |-> id, step |-> "complete"]
    /\ UNCHANGED <<now, cache, indicators, log>>
    /\ UNCHANGED <<calls, all_results, alerts, alert_triggers, evaluator>>
    /\ UNCHANGED sched

\* The end of run_analysis after the loop: status completed and progress 1.0
\* are stored.
RunComplete(id) ==
    /\ runs[id] # None
    /\ runs[id][1].pc = "loop"
    /\ runs[id][1].i = runs[id][1].max_analysis
    /\ sessions' = [sessions EXCEPT ![id] =
                       Some([runs[id][1].current_status EXCEPT
                                !.status = "completed", !.progress = <<1, 1>>])]
    /\ runs' = [runs EXCEPT ![id] = Some([pc |-> "done"])]
    /\ ev' = [op |-> "run_analysis", id |-> id, step |-> "complete"]
    /\ UNCHANGED <<now, cache, indicators, log>>
    /\ UNCHANGED <<calls, all_results, alerts, alert_triggers, evaluator>>
    /\ UNCHANGED sched

\* The task spawned by start_analysis for a session, one step at a time.
RunAnalysis(id) ==
    \/ \E fetchOk \in BOOLEAN, max_analysis \in 0..MaxTickers :
          RunFetchTickers(id, fetchOk, max_analysis)
    \/ RunAnalyzeTicker(id)
    \/ RunComplete(id)

NextSessions ==
    \/ \E id \in SessionIds : StartAnalysis(id)
    \/ \E id \in SessionIds : RunAnalysis(id)

\* Sessions started at any time.  The runtime polls every spawned task that is
\* ready, and every await of run_analysis returns, so the task of a session
\* that can take a step does take it.
SpecSessions ==
    Init /\ [][NextSessions]_vars /\ \A id \in SessionIds : WF_vars(RunAnalysis(id))

\* ------------------------------------------------------------- properties
Range(q) == {q[i] : i \in DOMAIN q}

\* Age rule of the due-set as the database applies it: never updated, or
\* updated more than the tier's interval ago.
Overdue(row, t) ==
    \/ row.last_price_update = None
    \/ t - row.last_price_update[1] > UpdateIntervalSeconds(row.priority)

\* After a tick every tier either got its task spawned at this tick or had
\* its previous spawn less than its interval ago.
TickSpawnsByTierInterval ==
    ev.op = "tick" =>
        \A p \in Tiers :
            /\ last_update_times[p] # None
            /\ \/ /\ last_update_times[p] = Some(now)
                  /\ TierTask(p, now) \in tasks
               \/ /\ last_update_times[p][1] < now
                  /\ now - last_update_times[p][1] < UpdateIntervalSeconds(p)

\* C4: a fetch that fails with a delisting classification (and whose marking
\* UPDATE goes through) leaves the symbol inactive with a delisting reason and
\* the error instant; an inactive symbol is in no tier's due-set, and no scan
\* returns one.
C4_DelistingStopsScheduling ==
    /\ (ev.op = "fetch_delisting" /\ ev.ok /\ HasRow(stocks, ev.sym)) =>
           /\ RowOf(stocks, ev.sym).is_active = FALSE
           /\ RowOf(stocks, ev.sym).delisting_reason # None
           /\ RowOf(stocks, ev.sym).last_error_at = Some(now)
    /\ \A s \in Symbols, p \in Tiers :
           (HasRow(stocks, s) /\ ~RowOf(stocks, s).is_active) =>
               s \notin StocksNeedingUpdate(stocks, p, now)
    /\ (ev.op = "scan" /\ ev.ok) =>
           \A s \in Range(ev.symbols) : RowOf(stocks, s).is_active

\* A scan of the tier of a delisted symbol that was never price-updated (so
\* only the active flag keeps it out) returns without it.
C4_Witness ==
    /\ ev.op = "scan" /\ ev.ok
    /\ \E s \in Symbols :
           /\ HasRow(stocks, s)
           /\ ~RowOf(stocks, s).is_active
           /\ RowOf(stocks, s).delisting_reason = Some("no_data_found")
           /\ RowOf(stocks, s).priority = ev.task.priority
           /\ RowOf(stocks, s).last_price_update = None
           /\ s \notin Range(ev.symbols)

\* C6 as claimed: a symbol whose latest fetch failed without a delisting
\* classification, still active, has its tier's refresh task spawned by the
\* very next tick.
C6_RetriedOnNextTick ==
    [][ev'.op = "tick" =>
         \A s \in retry :
             (HasRow(stocks, s) /\ RowOf(stocks, s).is_active) =>
                 TierTask(RowOf(stocks, s).priority, now) \in tasks']_vars

\* C6 amended: the failure changes neither the stocks table nor the
\* scheduler's bookkeeping (no backoff is recorded); the tier's next task is
\* spawned by the first tick at least the tier interval after the previous
\* spawn, and its scan returns the symbol exactly when it is active, of that
\* tier and overdue.
C6_RetriedOnNextTierScan ==
    /\ [][ev'.op = "fetch_error" =>
            /\ stocks' = stocks
            /\ last_update_times' = last_update_times
            /\ next_tick' = next_tick]_vars
    /\ [](TickSpawnsByTierInterval)
    /\ []((ev.op = "scan" /\ ev.ok) =>
            \A s \in retry :
                s \in Range(ev.symbols) <=>
                    /\ HasRow(stocks, s)
                    /\ RowOf(stocks, s).is_active
                    /\ RowOf(stocks, s).priority = ev.task.priority
                    /\ Overdue(RowOf(stocks, s), now))

\* The task spawned by a later tick picks up a symbol whose fetch had failed.
C6_Witness ==
    /\ ev.op = "scan" /\ ev.ok
    /\ ev.task.n > 0
    /\ \E s \in retry : s \in Range(ev.symbols)

\* The steps a spawned task can take.
TaskStep(task) ==
    \/ \E dbOk \in BOOLEAN : Scan(task, dbOk)
    \/ \E answer \in ProviderAnswers, markOk \in BOOLEAN : Fetch(task, answer, markOk)
    \/ \E dbOk \in BOOLEAN : Store(task, dbOk)
    \/ \E dbOk \in BOOLEAN : Stamp(task, dbOk)

\* C7: a tier task that ends after its scan has fetched every symbol of the
\* scanned list once, in order, whatever failed on the way, and until then it
\* has fetched exactly the symbols up to its current one; every tick spawns
\* each tier whose interval has elapsed, and every spawned task can take its
\* next step, whatever happened to the other tasks.
C7_FailuresDoNotAbort ==
    /\ (ev.done /\ ev.task.kind = "tier" /\ ev.op # "scan") => ev.fetched = ev.symbols
    /\ \A t \in tasks :
           (t.id.kind = "tier" /\ t.pc # "scan") =>
               t.fetched = SubSeq(t.symbols, 1, IF t.pc = "fetch" THEN t.pos - 1 ELSE t.pos)
    /\ TickSpawnsByTierInterval
    /\ \A t \in tasks : ENABLED TaskStep(t)

\* A task finishes its second symbol successfully after the fetch of its first
\* symbol failed.
C7_Witness ==
    /\ ev.op = "stamp" /\ ev.ok /\ ev.done
    /\ ev.task.kind = "tier"
    /\ Len(ev.symbols) = 2
    /\ ev.sym = ev.symbols[2]
    /\ ev.symbols[1] \in retry


\* C9 as claimed: every scan of a tier returns each symbol of that tier whose
\* last_price_update is absent.
C9_NeverUpdatedAlwaysDue ==
    (ev.op = "scan" /\ ev.ok) =>
        \A s \in Symbols :
            (/\ HasRow(stocks, s)
             /\ RowOf(stocks, s).priority = ev.task.priority
             /\ RowOf(stocks, s).last_price_update = None)
            => s \in Range(ev.symbols)

\* C9 amended: every scan of a tier returns each active symbol of that tier
\* whose last_price_update is absent.
C9_ActiveNeverUpdatedAlwaysDue ==
    (ev.op = "scan" /\ ev.ok) =>
        \A s \in Symbols :
            (/\ HasRow(stocks, s)
             /\ RowOf(stocks, s).is_active
             /\ RowOf(stocks, s).priority = ev.task.priority
             /\ RowOf(stocks, s).last_price_update = None)
            => s \in Range(ev.symbols)

\* A scan of a later tick returns a symbol that is still never updated, after
\* the other symbol was updated.
C9_Witness ==
    /\ ev.op = "scan" /\ ev.ok
    /\ ev.task.n > 0
    /\ \E s \in Range(ev.symbols) : RowOf(stocks, s).last_price_update = None
    /\ \E s \in Symbols : RowOf(stocks, s).last_price_update # None

\* C10 as claimed, for active symbols: a scan of a tier returns a symbol with
\* a present last_price_update exactly when it is of that tier and its age is
\* at least the tier's interval.
C10_DueFromIntervalOn ==
    (ev.op = "scan" /\ ev.ok) =>
        \A s \in Symbols :
            (/\ HasRow(stocks, s)
             /\ RowOf(stocks, s).is_active
             /\ RowOf(stocks, s).last_price_update # None)
            => (s \in Range(ev.symbols) <=>
                   /\ RowOf(stocks, s).priority = ev.task.priority
                   /\ now - RowOf(stocks, s).last_price_update[1]
                          >= UpdateIntervalSeconds(ev.task.priority))

\* C10 amended: a scan of a tier returns a symbol with a present
\* last_price_update exactly when it is active, of that tier and its age
\* exceeds the tier's interval (High 60 s, Medium 300 s, Low 900 s); at an age
\* equal to the interval it is not returned.
C10_DueAfterInterval ==
    (ev.op = "scan" /\ ev.ok) =>
        \A s \in Symbols :
            (HasRow(stocks, s) /\ RowOf(stocks, s).last_price_update # None)
            => (s \in Range(ev.symbols) <=>
                   /\ RowOf(stocks, s).is_active
                   /\ RowOf(stocks, s).priority = ev.task.priority
                   /\ now - RowOf(stocks, s).last_price_update[1]
                          > (CASE ev.task.priority = "High" -> 60
                               [] ev.task.priority = "Medium" -> 300
                               [] ev.task.priority = "Low" -> 900))

\* A Low scan returns a symbol updated 901 s ago.
C10_Witness ==
    /\ ev.op = "scan" /\ ev.ok
    /\ ev.task.priority = "Low"
    /\ \E s \in Range(ev.symbols) :
           RowOf(stocks, s).last_price_update = Some(now - 901)

ImmediateTasks == {t \in tasks : t.id.kind = "immediate"}

\* C2: every add that inserted its watchlist row spawns exactly one task, an
\* immediate update of that symbol that starts at its fetch; that fetch can
\* run in every state, whatever last_price_update, the tier and the tick are;
\* after a successful fetch the task is at its store with the quote of this
\* instant; its successful store puts the quote's bar into market_data and
\* leads to the stamp; its successful stamp sets last_price_update to now, the
\* bar being stored already.
C2_AddSpawnsImmediateRefresh ==
    /\ [][ev'.op = "add_done" =>
            \E t \in tasks' :
                /\ t \notin tasks
                /\ tasks' = tasks \cup {t}
                /\ t.id = ev'.task
                /\ t.id.kind = "immediate"
                /\ t.symbols = <<ev'.sym>>
                /\ t.pos = 1
                /\ t.pc = "fetch"]_vars
    /\ [](\A t \in ImmediateTasks :
            t.pc = "fetch" =>
                ENABLED (\E answer \in ProviderAnswers, markOk \in BOOLEAN :
                             Fetch(t, answer, markOk)))
    /\ []((ev.op = "fetch_ok" /\ ev.task.kind = "immediate") =>
            \E t \in ImmediateTasks :
                t.id = ev.task /\ t.pc = "store" /\ t.quote = Some(now))
    /\ []((ev.op = "store" /\ ev.ok /\ ev.task.kind = "immediate") =>
            /\ \E r \in market_data :
                   r.symbol = ev.sym /\ r.timestamp = ev.quote[1] /\ r.data = ev.task
            /\ \E t \in ImmediateTasks : t.id = ev.task /\ t.pc = "stamp")
    /\ []((ev.op = "stamp" /\ ev.ok /\ ev.task.kind = "immediate") =>
            /\ HasRow(stocks, ev.sym) =>
                   RowOf(stocks, ev.sym).last_price_update = Some(now)
            /\ \E r \in market_data : r.symbol = ev.sym /\ r.timestamp = ev.quote[1])

\* An immediate update stamps a symbol that was updated 5 s before the
\* process started, before the scheduler's first tick.
C2_Witness ==
    /\ ev.op = "stamp" /\ ev.ok /\ ev.task.kind = "immediate"
    /\ next_tick = 0
    /\ RowOf(stocks, ev.sym).last_price_update = Some(now)
    /\ \E r \in market_data : r.symbol = ev.sym /\ r.data = ev.task

\* No other refresh of the symbol of the last step is at its store or stamp.
NoOtherInFlight ==
    \A t \in tasks :
        (t.pc \in {"store", "stamp"} /\ CurrentSymbol(t) = ev.sym) => t.id = ev.task

C3_DemotedExactlyWhenUnwatched ==
    /\ [][(ev'.op = "remove_done" /\ HasRow(stocks, ev'.sym)) =>
            IF ev'.sym \in WatchlistSymbols(watchlist')
            THEN stocks' = stocks
            ELSE ev'.ok => RowOf(stocks', ev'.sym).priority = "Medium"]_vars
    /\ [][\A s \in Symbols :
            (HasRow(stocks', s) /\ RowOf(stocks', s).priority = "Low") =>
                (HasRow(stocks, s) /\ RowOf(stocks, s).priority = "Low")]_vars

\* C5: a symbol that is inactive keeps its record and stays inactive at every
\* step that is not update_stock_status(symbol, true).
C5_OnlyOperatorReactivates ==
    [][\A s \in Symbols :
         (HasRow(stocks, s) /\ ~RowOf(stocks, s).is_active) =>
             /\ HasRow(stocks', s)
             /\ RowOf(stocks', s).is_active =>
                    (ev'.op = "update_stock_status" /\ ev'.sym = s /\ ev'.ok)]_vars

\* The stock-list upsert runs on a symbol that a refresh has marked delisted,
\* after the symbol was price-updated and while it is High, and leaves it
\* inactive.
C5_Witness ==
    /\ ev.op = "create_stock"
    /\ HasRow(stocks, ev.sym)
    /\ ~RowOf(stocks, ev.sym).is_active
    /\ RowOf(stocks, ev.sym).delisting_reason = Some("no_data_found")
    /\ RowOf(stocks, ev.sym).last_price_update # None
    /\ RowOf(stocks, ev.sym).priority = "High"

\* C11 as claimed: every tick spawns the refresh task of each tier whose
\* due-set is non-empty at the tick.
C11_EveryTickSpawnsDueTiers ==
    [][ev'.op = "tick" =>
         \A p \in Tiers :
             StocksNeedingUpdate(stocks, p, now) # {} => TierTask(p, now) \in tasks']_vars

\* C11 amended: a tick spawns the refresh task of a tier exactly when the tier
\* was never spawned before or its previous spawn is at least the tier's
\* interval (60, 300, 900 s) ago, whatever its due-set is; the due-set is
\* computed by the spawned task, once, and the task ends there when it is empty.
C11_TickSpawnsElapsedTiers ==
    /\ [][ev'.op = "tick" =>
            \A p \in Tiers :
                TierTask(p, now) \in tasks' <=>
                    \/ last_update_times[p] = None
                    \/ now - last_update_times[p][1] >=
                           (CASE p = "High" -> 60 [] p = "Medium" -> 300 [] p = "Low" -> 900)]_vars
    /\ []((ev.op = "scan" /\ ev.ok) =>
            /\ Range(ev.symbols) = StocksNeedingUpdate(stocks, ev.task.priority, now)
            /\ ev.done <=> ev.symbols = <<>>
            /\ \A t \in tasks : t.id = ev.task => t.pc = "fetch")

\* The tick at 60 s spawns the High tier and not the Medium tier, whose
\* due-set is not empty.
C11_Witness ==
    /\ ev.op = "tick"
    /\ now = 60
    /\ TierTask("High", now) \in tasks
    /\ TierTask("Medium", now) \notin tasks
    /\ StocksNeedingUpdate(stocks, "Medium", now) # {}

\* C12 as claimed: every stock record's price_update_interval_seconds is the
\* interval of its tier (High 60, Medium 300, Low 900).
C12_IntervalIsFunctionOfTier ==
    \A s \in Symbols :
        HasRow(stocks, s) =>
            RowOf(stocks, s).price_update_interval_seconds =
                (CASE RowOf(stocks, s).priority = "High" -> 60
                   [] RowOf(stocks, s).priority = "Medium" -> 300
                   [] RowOf(stocks, s).priority = "Low" -> 900)

\* C13: for any key and interval d, the first should_rate_limit(key, d)
\* returns false; a later call for the key with the same d, with only refused
\* calls and no clear_cache since the first, returns true when less than d
\* has elapsed since the first call and false when at least d has elapsed.
C13_AllowedRefusedAllowed ==
    ev.op = "should_rate_limit" =>
        /\ ev.first = None => ev.result = FALSE
        /\ ( /\ ev.first # None
             /\ ev.first[1].only_refused
             /\ ev.first[1].min_interval = ev.min_interval )
           => ev.result = (now - ev.first[1].at < ev.min_interval)

\* The third call of the sequence: allowed again, after a refused call, once
\* the interval has elapsed since the first call.
C13_Witness ==
    /\ ev.op = "should_rate_limit"
    /\ ev.first # None
    /\ ev.first[1].only_refused
    /\ ev.first[1].refused
    /\ ev.first[1].min_interval = ev.min_interval
    /\ ev.result = FALSE

\* C14 as stated: after any sequence of cache, get and clear operations a
\* getter returns a value if and only if the most recent caching call for the
\* key happened less than the TTL ago, and the value is the one of that call.
C14_CachedIffWithinTtl ==
    ev.op = "get" =>
        LET last == log.cached[ev.kind][ev.key]
        IN  ev.result = IF last # None /\ now - last[1].at < Ttl(ev.kind)
                        THEN Some(last[1].value)
                        ELSE None

\* C14: a getter returns a value if and only if the most recent caching call
\* for the key happened less than the TTL ago (300 s for bars and indicators,
\* 3600 s for tickers) and clear_cache has not run since that call, and the
\* value is the one of that call.
C14_CachedIffWithinTtlAndNotCleared ==
    ev.op = "get" =>
        LET last == log.cached[ev.kind][ev.key]
        IN  ev.result = IF /\ last # None
                           /\ ~last[1].cleared
                           /\ now - last[1].at < Ttl(ev.kind)
                        THEN Some(last[1].value)
                        ELSE None

\* A getter returns nothing for a key cached less than the TTL ago, because
\* clear_cache ran in between.
C14_Witness ==
    /\ ev.op = "get"
    /\ ev.result = None
    /\ log.cached[ev.kind][ev.key] # None
    /\ log.cached[ev.kind][ev.key][1].cleared
    /\ now - log.cached[ev.kind][ev.key][1].at < Ttl(ev.kind)

\* C15: no getter returns an entry whose insertion instant (cached_at) lies
\* the TTL or more in the past, also while the underlying cache still holds
\* and serves it.
C15_NoStaleEntryReturned ==
    (ev.op = "get" /\ ev.result # None) =>
        /\ cache[ev.kind][ev.key] # None
        /\ now - cache[ev.kind][ev.key][1].cached_at < Ttl(ev.kind)

\* A getter returns nothing although the underlying cache holds the entry and
\* its time_to_live, counted from the later write, has not passed.
C15_Witness ==
    /\ ev.op = "get"
    /\ ev.result = None
    /\ cache[ev.kind][ev.key] # None
    /\ now < cache[ev.kind][ev.key][1].written + Ttl(ev.kind)
    /\ now - cache[ev.kind][ev.key][1].cached_at >= Ttl(ev.kind)

\* C16: is_delisting_error(msg) is true exactly when the lower-cased message
\* contains "no data found", "symbol may be delisted", "invalid symbol" or
\* "not found"; the messages about timeouts, refused connections, rate limits
\* and internal server errors are classified as not delisting.
C16_DelistingExactlyOnPhrase ==
    ev.op = "is_delisting_error" =>
        LET lower == ToLowercase(ev.msg)
        IN  /\ ev.result =
                   ( \/ Contains(lower, <<"no", "data", "found">>)
                     \/ Contains(lower, <<"symbol", "may", "be", "delisted">>)
                     \/ Contains(lower, <<"invalid", "symbol">>)
                     \/ Contains(lower, <<"not", "found">>) )
            /\ ev.msg \in {<<"Timeout", "expired">>, <<"Connection", "refused">>,
                           <<"Network", "timeout">>,
                           <<"API", "rate", "limit", "exceeded">>,
                           <<"Internal", "server", "error">>}
                   => ev.result = FALSE

\* An upper-case message with a delisting phrase is classified as delisting.
C16_Witness ==
    /\ ev.op = "is_delisting_error"
    /\ ev.msg = <<"NO", "DATA", "FOUND">>
    /\ ev.result = TRUE

\* C17 as stated: at every position of the output of calculate_indicators,
\* sma_20 (sma_50) is absent while fewer than 20 (50) closes have been
\* consumed and is the arithmetic mean of the last 20 (50) closes from then on.
C17_SmaAbsentUntilWarmed ==
    ev.op = "calculate_indicators" =>
        \A i \in 1..Len(ev.results) :
            /\ ev.results[i].sma_20 =
                   IF i < Sma20Period THEN None
                   ELSE Some(<<Sum(SubSeq(ev.stock_data, i - Sma20Period + 1, i)),
                               Sma20Period>>)
            /\ ev.results[i].sma_50 =
                   IF i < Sma50Period THEN None
                   ELSE Some(<<Sum(SubSeq(ev.stock_data, i - Sma50Period + 1, i)),
                               Sma50Period>>)

StrictlyIncreasing(q) == \A i \in 1..(Len(q) - 1) : q[i] < q[i + 1]

\* C18: every value CustomRSI.next returns lies within [0, 100]; it is exactly
\* 100 whenever the average loss is 0, and so at every position of a strictly
\* increasing close sequence where a value is returned.
C18_RsiInRangeAnd100WithoutLoss ==
    (ev.op = "next" /\ ev.out # None) =>
        /\ ev.out[1][2] > 0
        /\ 0 <= ev.out[1][1]
        /\ ev.out[1][1] <= 100 * ev.out[1][2]
        /\ ev.rsi.avg_loss[1][1] = 0 => ev.out = Some(<<100, 1>>)
        /\ StrictlyIncreasing(ev.closes) => ev.out = Some(<<100, 1>>)

\* The second value returned on a strictly increasing close sequence is 100.
C18_Witness ==
    /\ ev.op = "next"
    /\ StrictlyIncreasing(ev.closes)
    /\ Len(ev.closes) = ev.rsi.period + 2
    /\ ev.out = Some(<<100, 1>>)

\* C19: CustomRSI(period).next returns absent for the first period bars and a
\* value on the bar that consumes the period-th change and on every bar after.
C19_RsiAbsentForPeriodBars ==
    ev.op = "next" => (ev.out = None <=> Len(ev.closes) <= ev.rsi.period)

\* The third bar of a CustomRSI(2) yields the first value.
C19_Witness ==
    /\ ev.op = "next"
    /\ ev.rsi.period = 2
    /\ Len(ev.outs) = 3
    /\ ev.outs[1] = None
    /\ ev.outs[2] = None
    /\ ev.outs[3] # None

\* C20: calculate_indicators(symbol, bars) returns one snapshot per bar, in
\* input order, and the snapshots are those of freshly created indicators fed
\* the same bars, whatever calls were made before for this or another symbol.
C20_OneSnapshotPerBarOfFreshIndicators ==
    ev.op = "calculate_indicators" =>
        /\ Len(ev.results) = Len(ev.stock_data)
        /\ \A i \in 1..Len(ev.stock_data) :
               ev.results[i] =
                   Feed(NewIndicatorSet, SubSeq(ev.stock_data, 1, i)).results[i]

\* A call for a symbol whose indicators earlier calls have used, on a series
\* long enough for every indicator of the set to return a value.
C20_Witness ==
    /\ ev.op = "calculate_indicators"
    /\ ev.initialized
    /\ indicators[CHOOSE s \in Symbols : s # ev.sym] # None
    /\ Len(ev.results) = 17
    /\ ev.results[17].rsi # None

\* C29: after every call CustomRSI.next(close), whatever it returns, the
\* stored previous close equals that close.
C29_PreviousCloseIsLastClose ==
    ev.op = "next" =>
        ev.rsi.previous_close = Some(ev.closes[Len(ev.closes)])

\* C28: in a tier task and in an immediate update alike, a symbol's
\* last_price_update changes only in the timestamp update of a task that has
\* fetched the symbol's quote and stored its bar before; the store is made by
\* a task that has fetched the quote; a failed fetch and a failed store leave
\* every last_price_update as it was.
C28_StampOnlyAfterFetchAndStore ==
    [][ /\ \A s \in Symbols :
              ( /\ HasRow(stocks, s)
                /\ HasRow(stocks', s)
                /\ RowOf(stocks', s).last_price_update # RowOf(stocks, s).last_price_update )
              => /\ ev'.op = "stamp" /\ ev'.sym = s /\ ev'.ok
                 /\ \E task \in tasks :
                        /\ task.id = ev'.task
                        /\ task.pc = "stamp"
                        /\ CurrentSymbol(task) = s
                        /\ task.fetched[Len(task.fetched)] = s
                        /\ task.quote # None
                        /\ \E r \in market_data :
                               r.symbol = s /\ r.timestamp = task.quote[1]
        /\ ev'.op = "store"
              => \E task \in tasks :
                     /\ task.id = ev'.task
                     /\ task.pc = "store"
                     /\ task.fetched[Len(task.fetched)] = ev'.sym
                     /\ task.quote # None
        /\ (ev'.op \in {"fetch_error", "fetch_delisting"} \/ (ev'.op = "store" /\ ~ev'.ok))
              => \A s \in Symbols :
                     HasRow(stocks, s) =>
                         /\ HasRow(stocks', s)
                         /\ RowOf(stocks', s).last_price_update
                                = RowOf(stocks, s).last_price_update
      ]_vars

\* An immediate update whose store failed has ended and the symbol's
\* last_price_update is still absent.
C28_Witness ==
    /\ ev.op = "store"
    /\ ~ev.ok
    /\ ev.task.kind = "immediate"
    /\ HasRow(stocks, ev.sym)
    /\ RowOf(stocks, ev.sym).last_price_update = None

\* C30: at any time at most one refresh task per tier is in flight.
C30_OneTaskPerTier ==
    \A p \in Tiers :
        Cardinality({task \in tasks : task.id.kind = "tier" /\ task.id.priority = p}) <= 1

\* C22: AverageTrueRange(period).calculate returns one entry per bar: absent
\* until period true ranges exist, then the mean of the first period true
\* ranges, and on every later bar (previous_atr * (period - 1) + tr) / period,
\* with tr = max(high - low, |high - prevClose|, |low - prevClose|).
C22_AtrMeanThenWilder ==
    ev.op = "AverageTrueRange" =>
        LET data == ev.call.data
            period == ev.call.period
            abs(x) == IF x < 0 THEN 0 - x ELSE x
            max(a, b) == IF a < b THEN b ELSE a
            \* the true range of the bar at position i > 1
            tr(i) == max(max(data[i].high - data[i].low,
                             abs(data[i].high - data[i - 1].close)),
                         abs(data[i].low - data[i - 1].close))
        IN  /\ Len(ev.results) = Len(data)
            /\ \A i \in 1..Len(data) :
                   ev.results[i] =
                       IF i - 1 < period THEN None
                       ELSE IF i - 1 = period
                       THEN Some(Frac(Sum([j \in 1..period |-> tr(j + 1)]), period))
                       ELSE Some(Frac(ev.results[i - 1][1][1] * (period - 1)
                                          + tr(i) * ev.results[i - 1][1][2],
                                      period * ev.results[i - 1][1][2]))

\* An AverageTrueRange(2) on four bars: the mean of two true ranges at the
\* third bar, and a smoothed value that differs from it at the fourth, whose
\* true range is the gap of its low from the close before.
C22_Witness ==
    /\ ev.op = "AverageTrueRange"
    /\ ev.call.period = 2
    /\ Len(ev.call.data) = 4
    /\ ev.results[2] = None
    /\ ev.results[3] # None
    /\ ev.results[4] # ev.results[3]
    /\ ev.call.data[3].close - ev.call.data[4].low
           > ev.call.data[4].high - ev.call.data[4].low

\* C23: whenever the upper and the lower Bollinger band of a window are
\* equal, as they are in a window of equal closes, percent_b is exactly 0.5
\* and nothing is divided by zero; in every other window percent_b equals
\* (close - lower) / (upper - lower).
C23_PercentBHalfOnEqualBands ==
    ev.op = "BollingerBands" =>
        \A i \in 1..Len(ev.results) :
            ev.results[i] # None =>
                LET value == ev.results[i][1]
                    close == <<ev.call.data[i].close, 1>>
                    width == Minus(value.upper_band, value.lower_band)
                IN  /\ value.percent_b[2] > 0
                    /\ (\A j \in (i - ev.call.period + 1)..i :
                            ev.call.data[j].close = ev.call.data[i].close)
                           => value.upper_band = value.lower_band
                    /\ value.upper_band = value.lower_band
                           => value.percent_b = <<1, 2>>
                    /\ value.upper_band # value.lower_band
                           => /\ width[1] # 0
                              /\ value.percent_b
                                     = Frac(Minus(close, value.lower_band)[1] * width[2],
                                            Minus(close, value.lower_band)[2] * width[1])

\* BollingerBands(2, 2.0) on a series with a window of equal closes, whose
\* bands are equal, and a window of different closes, whose percent_b is not
\* 0.5.
C23_Witness ==
    /\ ev.op = "BollingerBands"
    /\ ev.call.period = 2
    /\ ev.call.std_dev_multiplier = <<2, 1>>
    /\ \E i, j \in 2..Len(ev.results) :
           /\ ev.results[i][1].upper_band = ev.results[i][1].lower_band
           /\ ev.results[i][1].percent_b = <<1, 2>>
           /\ ev.results[j][1].upper_band # ev.results[j][1].lower_band
           /\ ev.results[j][1].percent_b # <<1, 2>>

\* C24: whenever the highest high equals the lowest low over the Stochastic
\* window, %K is exactly 50 and nothing is divided by zero; in every other
\* window %K equals (close - lowestLow) / (highestHigh - lowestLow) * 100.
C24_KPercentFiftyOnFlatWindow ==
    ev.op = "StochasticOscillator" =>
        \A i \in 1..Len(ev.results) :
            ev.results[i] # None =>
                LET window == (i - ev.call.period + 1)..i
                    highestHigh ==
                        CHOOSE h \in {ev.call.data[j].high : j \in window} :
                            \A j \in window : ev.call.data[j].high <= h
                    lowestLow ==
                        CHOOSE l \in {ev.call.data[j].low : j \in window} :
                            \A j \in window : l <= ev.call.data[j].low
                    k_percent == ev.results[i][1].k_percent
                IN  /\ k_percent[2] > 0
                    /\ highestHigh = lowestLow => k_percent = <<50, 1>>
                    /\ highestHigh # lowestLow =>
                           k_percent =
                               Times(Frac(ev.call.data[i].close - lowestLow,
                                          highestHigh - lowestLow),
                                     <<100, 1>>)

\* A StochasticOscillator(2, 2) on a series with a flat window, whose %K is
\* 50, and a window with a range, whose %K is not 50.
C24_Witness ==
    /\ ev.op = "StochasticOscillator"
    /\ ev.call.period = 2
    /\ ev.call.d_period = 2
    /\ \E i, j \in 2..Len(ev.results) :
           /\ ev.call.data[i - 1] = ev.call.data[i]
           /\ ev.call.data[i].high = ev.call.data[i].low
           /\ ev.results[i][1].k_percent = <<50, 1>>
           /\ ev.call.data[j].high # ev.call.data[j - 1].low
           /\ ev.results[j][1].k_percent # <<50, 1>>

\* C21: every batch calculator is causal: the value at position i computed on
\* the full series equals the value at position i computed on the first i
\* bars alone.
C21_ValueDependsOnPrefixOnly ==
    /\ ev.op = "AverageTrueRange" =>
           \A i \in 1..Len(ev.call.data) :
               ev.results[i]
                   = AtrCalculate(ev.call.period, SubSeq(ev.call.data, 1, i))[i]
    /\ ev.op = "BollingerBands" =>
           \A i \in 1..Len(ev.call.data) :
               ev.results[i]
                   = BollingerCalculate(ev.call.period, ev.call.std_dev_multiplier,
                                        SubSeq(ev.call.data, 1, i))[i]
    /\ ev.op = "StochasticOscillator" =>
           \A i \in 1..Len(ev.call.data) :
               ev.results[i]
                   = StochasticCalculate(ev.call.period, ev.call.d_period,
                                         SubSeq(ev.call.data, 1, i))[i]
    /\ ev.op = "CommodityChannelIndex" =>
           \A i \in 1..Len(ev.call.data) :
               ev.results[i]
                   = CciCalculate(ev.call.period, ev.call.factor,
                                  SubSeq(ev.call.data, 1, i))[i]
    /\ ev.op = "calculate_indicators" =>
           \A i \in 1..Len(ev.stock_data) :
               ev.results[i]
                   = Feed(NewIndicatorSet, SubSeq(ev.stock_data, 1, i)).results[i]

\* A StochasticOscillator(2, 2) on four bars whose value at the second bar is
\* followed by bars that give other values.
C21_Witness ==
    /\ ev.op = "StochasticOscillator"
    /\ ev.call.period = 2
    /\ ev.call.d_period = 2
    /\ Len(ev.call.data) = 4
    /\ ev.results[2] # ev.results[3]
    /\ ev.results[2] # ev.results[4]
    /\ ev.results[2]
           = StochasticCalculate(2, 2, SubSeq(ev.call.data, 1, 2))[2]

C26_OpportunityByConfiguredThresholds ==
    ev.op = "is_opportunity" =>
        LET oversold == IF ev.call.filter.oversold_rsi_threshold = None THEN 30
                        ELSE ev.call.filter.oversold_rsi_threshold[1]
            overbought == IF ev.call.filter.overbought_rsi_threshold = None THEN 70
                          ELSE ev.call.filter.overbought_rsi_threshold[1]
        IN  ev.results <=>
                /\ ev.call.rsi # None
                /\ ev.call.rsi[1] <= oversold \/ ev.call.rsi[1] >= overbought

\* C27: for an RSI below the configured oversold threshold (30 where none is
\* configured) the signal list has an RSI-oversold tag, for an RSI above the
\* configured overbought threshold (70 where none is configured) it has an
\* RSI-overbought tag, the two tags never come together, and there is no RSI
\* tag when the RSI is absent or between the thresholds.
C27_RsiTagsByConfiguredThresholds ==
    ev.op = "analyze_signals" =>
        LET oversold == IF ev.call.filter.oversold_rsi_threshold = None THEN 30
                        ELSE ev.call.filter.oversold_rsi_threshold[1]
            overbought == IF ev.call.filter.overbought_rsi_threshold = None THEN 70
                          ELSE ev.call.filter.overbought_rsi_threshold[1]
            tags == {ev.results[i] : i \in 1..Len(ev.results)}
            oversoldTag == "RSI Oversold (<30)" \in tags
            overboughtTag == "RSI Overbought (>70)" \in tags
            rsi == ev.call.snapshot.rsi
        IN  /\ (rsi # None /\ rsi[1] < oversold) => oversoldTag
            /\ (rsi # None /\ rsi[1] > overbought) => overboughtTag
            /\ ~(oversoldTag /\ overboughtTag)
            /\ (rsi = None \/ (oversold <= rsi[1] /\ rsi[1] <= overbought))
                   => (~oversoldTag /\ ~overboughtTag)

\* C31: no provider fetch is started for a symbol that is inactive at the
\* moment the fetch starts, neither by a tier refresh task working through
\* its due list nor by an immediate update.
C31_NoFetchOfInactiveSymbol ==
    [][(ev'.op \in {"fetch_ok", "fetch_error", "fetch_delisting"}
            /\ HasRow(stocks, ev'.sym))
           => RowOf(stocks, ev'.sym).is_active]_vars

\* C32: whenever no watchlist request is in progress, every symbol with a
\* stock record that is on at least one user's watchlist has tier High.
C32_WatchedIsHighAtRest ==
    (\A user \in Users : req[user] = None) =>
        \A s \in WatchlistSymbols(watchlist) :
            HasRow(stocks, s) => RowOf(stocks, s).priority = "High"

\* C33: of the callers of should_rate_limit for one key, at most one is
\* allowed within one min_interval window: a call is allowed (returns false)
\* only when, at its return, no allowed call for the key is recorded less than
\* min_interval ago.
C33_OneAllowedPerWindow ==
    [][ev'.op = "rate_limit_insert" =>
           ~ShouldRefuse(cache.rate_limiter[ev'.key], ev'.min_interval, now)]_vars

\* C34: a refused call of should_rate_limit leaves the recorded instant of
\* every key unchanged, and an allowed call changes the record of its own key
\* only, to the instant of the call; so a call is refused exactly when less
\* than min_interval has elapsed since the last allowed call for its key,
\* however many refused calls came in between.
C34_RefusedCallsRecordNothing ==
    [][ev'.op = "should_rate_limit" =>
           /\ ev'.result = ShouldRefuse(cache.rate_limiter[ev'.key], ev'.min_interval, now)
           /\ ev'.result => cache'.rate_limiter = cache.rate_limiter
           /\ ~ev'.result =>
                  cache'.rate_limiter = [cache.rate_limiter EXCEPT ![ev'.key] = Some(now)]]_vars

\* A refused call that found the instant of an earlier allowed call and left
\* it in place, while another key has a record of its own.
C34_Witness ==
    /\ ev.op = "should_rate_limit"
    /\ ev.result
    /\ ev.first # None
    /\ cache.rate_limiter[ev.key] = Some(ev.first[1].at)
    /\ ev.first[1].at < now
    /\ \E k \in CacheKeys : k # ev.key /\ cache.rate_limiter[k] # None

\* C35: IndicatorService.calculate_indicators returns an sma_20 equal to the
\* arithmetic mean of the 20 most recent closes by timestamp, each bar counted
\* once, and none when fewer than 20 bars are supplied; likewise sma_50.
C35_ServiceSmaIsMeanOfLatestCloses ==
    ev.op = "IndicatorService" =>
        LET data == ev.call.data
            latest(period) == {d \in {data[i] : i \in 1..Len(data)} :
                                  Cardinality({e \in {data[i] : i \in 1..Len(data)} :
                                                  e.timestamp > d.timestamp}) < period}
            total(period) == Sum([i \in 1..Len(data) |->
                                     IF data[i] \in latest(period) THEN data[i].close
                                     ELSE 0])
            IsMean(out, period) ==
                IF Len(data) < period THEN out = None
                ELSE out # None /\ out[1][1] * period = total(period) * out[1][2]
        IN  /\ IsMean(ev.results.sma_20, Sma20Period)
            /\ IsMean(ev.results.sma_50, Sma50Period)

\* C36: with both RSI thresholds set and no min_rsi or max_rsi,
\* filter_tickers_with_analysis includes every ticker that passes the basic
\* filters and whose current RSI is below the oversold threshold or above the
\* overbought threshold.
C36_ExtremeRsiIsIncluded ==
    ( /\ ev.op = "filter_tickers_with_analysis"
      /\ ev.call.filter.oversold_rsi_threshold # None
      /\ ev.call.filter.overbought_rsi_threshold # None
      /\ ev.call.filter.min_rsi = None
      /\ ev.call.filter.max_rsi = None )
    => \A i \in 1..Len(ev.call.tickers) :
           LET ticker == ev.call.tickers[i]
           IN  ( /\ ticker.passes_basic_filters
                 /\ ticker.rsi.ok
                 /\ ticker.rsi.value # None
                 /\ \/ ticker.rsi.value[1] < ev.call.filter.oversold_rsi_threshold[1]
                    \/ ticker.rsi.value[1] > ev.call.filter.overbought_rsi_threshold[1] )
               => \E j \in 1..Len(ev.results) : ev.results[j][1] = ticker

\* C37: over any number of evaluation cycles, cycles in which a database
\* statement fails included, each alert has at most one trigger record.
C37_AtMostOneTriggerPerAlert ==
    \A id \in AlertIds : alert_triggers[id] <= 1

\* C38: an update_alert or a delete_alert request of a user changes no alert
\* that another user owns.
C38_HandlersChangeOwnAlertsOnly ==
    [][ev'.op \in {"update_alert", "delete_alert"} =>
           \A id \in AlertIds :
               (alerts[id] # None /\ alerts[id][1].user_id # ev'.user_id)
                   => alerts'[id] = alerts[id]]_vars

\* C39: all_results never holds two entries of one ticker, neither in the
\* list nor in what a reader is handed; a new result of a ticker takes the
\* place of the entry the ticker had and leaves the other entries as they
\* were.
C39_OneResultPerTicker ==
    /\ [](/\ \A i, j \in 1..Len(all_results) :
                 all_results[i].ticker = all_results[j].ticker => i = j
          /\ ev.op = "get_filtered_results" =>
                 \A i, j \in 1..Len(ev.results) :
                     ev.results[i].ticker = ev.results[j].ticker => i = j)
    /\ [][ev'.op = "all_results_update" =>
              /\ all_results'[Len(all_results')] = ev'.result
              /\ \A r \in {all_results[i] : i \in 1..Len(all_results)} :
                     r.ticker # ev'.ticker =>
                         \E i \in 1..Len(all_results') : all_results'[i] = r
              /\ Len(all_results') = Len(all_results) + 1 - Len(ev'.previous)]_vars

\* A result of a ticker that had an entry with another RSI, stored while
\* another ticker has an entry, and a reader handed both tickers afterwards.
C39_Witness ==
    /\ ev.op = "get_filtered_results"
    /\ Len(ev.results) = 2
    /\ Len(all_results) = 2
    /\ all_results[1].rsi # all_results[2].rsi

\* C40: a session is stored with status running when it is created; a stored
\* status of completed or error never changes again; a completed session has
\* progress 1.0 and analyzed_count equal to total_count; and every session
\* that was created ends completed or in error.
C40_SessionRunsToOneEnd ==
    /\ [][\A id \in SessionIds :
              /\ (sessions[id] = None /\ sessions'[id] # None)
                     => sessions'[id][1].status = "running"
              /\ (sessions[id] # None /\ sessions[id][1].status \in {"completed", "error"})
                     => sessions'[id] = sessions[id]]_vars
    /\ [](\A id \in SessionIds :
              (sessions[id] # None /\ sessions[id][1].status = "completed")
                  => /\ sessions[id][1].progress = <<1, 1>>
                     /\ sessions[id][1].analyzed_count = sessions[id][1].total_count)
    /\ \A id \in SessionIds :
           (sessions[id] # None)
               ~> (sessions[id] # None /\ sessions[id][1].status \in {"completed", "error"})

\* A session completed after more than five tickers, so that a status was
\* stored inside the loop, beside a session that ended in error.
C40_Witness ==
    /\ sessions["s1"] # None
    /\ sessions["s1"][1].status = "completed"
    /\ sessions["s1"][1].analyzed_count > 5
    /\ sessions["s2"] # None
    /\ sessions["s2"][1].status = "error"

====
